---------------------------- MODULE Spec2Model ----------------------------
(***************************************************************************)
(* Model of the Koeln press-release feed client (koeln_presse).            *)
(*                                                                         *)
(* RssClient keeps one cached snapshot (_cached_items, _last_fetch) and     *)
(* refreshes it on demand.  All coroutines run on one asyncio event loop:  *)
(* a coroutine runs without interruption between two suspension points,    *)
(* and the only suspension points are the HTTP request and the backoff      *)
(* sleep inside the retrying fetch_raw.  Each action below is one such      *)
(* uninterrupted segment of one caller's coroutine.                         *)
(*                                                                         *)
(* Strings are sequences of one-character strings so that strip,           *)
(* startswith and concatenation are computed as the code computes them.    *)
(***************************************************************************)
EXTENDS Integers, Sequences, FiniteSets, TLC

(***************************************************************************)
(* Bounds of the model.                                                    *)
(***************************************************************************)
\* Last instant of the wall clock (seconds).
MaxTime == 4
\* cache_ttl handed to the constructor (any positive number of seconds).
cache_ttl == 2

\* The concurrent callers (inbound requests on the event loop).
Callers == {"c1", "c2"}

(***************************************************************************)
(* Optional values (Python's None).                                        *)
(***************************************************************************)
None == [some |-> FALSE]
Some(v) == [some |-> TRUE, val |-> v]

(***************************************************************************)
(* Strings.                                                                *)
(***************************************************************************)
RECURSIVE lstrip(_)
lstrip(s) ==
    IF s # <<>> /\ Head(s) = " " THEN lstrip(Tail(s)) ELSE s

RECURSIVE rstrip(_)
rstrip(s) ==
    IF s # <<>> /\ s[Len(s)] = " " THEN rstrip(SubSeq(s, 1, Len(s) - 1)) ELSE s

strip(s) == rstrip(lstrip(s))

startswith(s, p) == Len(s) >= Len(p) /\ SubSeq(s, 1, Len(p)) = p

RECURSIVE lstrip_slash(_)
lstrip_slash(s) ==
    IF s # <<>> /\ Head(s) = "/" THEN lstrip_slash(Tail(s)) ELSE s

\* hashlib.sha1(...).hexdigest(), taken as injective: the digest of s is s
\* behind a mark that no feed text contains.
sha1_hexdigest(s) == <<"#">> \o s

\* pydantic's AnyUrl accepts a value of the shape scheme://rest.
AnyUrl(s) ==
    \E i \in 2..Len(s) :
        /\ i + 3 <= Len(s)
        /\ SubSeq(s, i, i + 2) = <<":", "/", "/">>
        /\ \A j \in 1..(i - 1) : s[j] \notin {":", "/", " "}

\* The default base_url of from_rss_item ("https://www.stadt-koeln.de",
\* written with a one-letter host).
base_url == <<"h", "t", "t", "p", "s", ":", "/", "/", "k">>
http == <<"h", "t", "t", "p">>

(***************************************************************************)
(* generate_stable_id                                                      *)
(***************************************************************************)
\* Faulty variant of generate_stable_id: the GUID is returned as it came.
generate_stable_id_untrimmed(title, link, guid) ==
    IF guid.some /\ guid.val # <<>> /\ strip(guid.val) # <<>>
    THEN guid.val
    ELSE sha1_hexdigest(strip(title) \o <<"|">> \o strip(link))

generate_stable_id(title, link, guid) ==
    IF guid.some /\ guid.val # <<>> /\ strip(guid.val) # <<>>
    THEN strip(guid.val)
    ELSE sha1_hexdigest(strip(title) \o <<"|">> \o strip(link))

(***************************************************************************)
(* from_rss_item.  An item element carries the text of its children; the   *)
(* empty text stands for a child that is missing or has no text (the code  *)
(* takes the same branch for both).  pubDate is absent, a text that        *)
(* dateutil parses to an instant, or a text that it rejects.  A text with  *)
(* a time zone, as RFC 822 dates have ("Mon, 15 Oct 2024 10:30:00 +0200"), *)
(* parses to an aware datetime, a text without one to a naive datetime.    *)
(***************************************************************************)
NoDate == [some |-> FALSE, parses |-> FALSE, at |-> 0, zone |-> FALSE]
DateAt(n) == [some |-> TRUE, parses |-> TRUE, at |-> n, zone |-> TRUE]
NaiveDateAt(n) == [some |-> TRUE, parses |-> TRUE, at |-> n, zone |-> FALSE]
BadDate == [some |-> TRUE, parses |-> FALSE, at |-> 0, zone |-> FALSE]

\* A datetime: the instant, and whether it carries a time zone (tzinfo).
\* datetime.now() carries none.
datetime(at, aware) == [at |-> at, aware |-> aware]
datetime_now(t) == datetime(t, FALSE)

ItemElem(title, link, guid, pubDate, categories, description, encoded) ==
    [title |-> title, link |-> link, guid |-> guid, pubDate |-> pubDate,
     categories |-> categories, description |-> description,
     encoded |-> encoded]

resolve_link(text) ==
    LET link_text == IF text # <<>> THEN strip(text) ELSE <<>>
    IN  IF startswith(link_text, <<"/">>) THEN base_url \o link_text
        ELSE IF ~startswith(link_text, http)
             THEN base_url \o <<"/">> \o lstrip_slash(link_text)
             ELSE link_text

RECURSIVE item_categories(_)
item_categories(cats) ==
    IF cats = <<>> THEN <<>>
    ELSE IF Head(cats) # <<>> /\ strip(Head(cats)) # <<>>
         THEN <<strip(Head(cats))>> \o item_categories(Tail(cats))
         ELSE item_categories(Tail(cats))

\* The result is [ok |-> TRUE, item |-> PressItem] or, when the PressItem
\* constructor rejects the link, [ok |-> FALSE].  t is the wall clock of the
\* call (datetime.now()).
from_rss_item(e, t) ==
    LET title == IF e.title # <<>> THEN strip(e.title)
                 ELSE <<"U", "n", "b", "e", "k", "a", "n", "n", "t", "e",
                        "r", " ", "T", "i", "t", "e", "l">>
        link_text == resolve_link(e.link)
        description == IF e.encoded # <<>> THEN Some(e.encoded)
                       ELSE IF e.description # <<>> THEN Some(e.description)
                       ELSE None
        published_at == IF e.pubDate.some /\ e.pubDate.parses
                        THEN datetime(e.pubDate.at, e.pubDate.zone)
                        ELSE datetime_now(t)
        categories == item_categories(e.categories)
        raw_guid == IF e.guid # <<>> THEN Some(strip(e.guid)) ELSE None
        item_id == generate_stable_id(title, link_text, raw_guid)
    IN  IF AnyUrl(link_text)
        THEN [ok |-> TRUE,
              item |-> [id |-> item_id, title |-> title, link |-> link_text,
                        description |-> description,
                        published_at |-> published_at,
                        categories |-> categories, raw_guid |-> raw_guid,
                        source |-> "rss:stadt-koeln"]]
        ELSE [ok |-> FALSE]

(***************************************************************************)
(* parse_items.  A feed document is not well-formed XML, or a root without *)
(* a channel child, or a channel with item elements.                       *)
(***************************************************************************)
MalformedXml == [wellformed |-> FALSE, channel |-> FALSE, items |-> <<>>]
NoChannelXml == [wellformed |-> TRUE, channel |-> FALSE, items |-> <<>>]
RssXml(items) == [wellformed |-> TRUE, channel |-> TRUE, items |-> items]

Raise(kind) == [raised |-> TRUE, error |-> [kind |-> kind, cause |-> "none"]]
Return(v) == [raised |-> FALSE, value |-> v]

RECURSIVE parse_loop_aborts(_, _)
\* Faulty variant of parse_loop: the first entry that fails ends the loop.
parse_loop_aborts(elems, t) ==
    IF elems = <<>> THEN <<>>
    ELSE LET r == from_rss_item(Head(elems), t)
         IN  IF r.ok THEN <<r.item>> \o parse_loop_aborts(Tail(elems), t)
             ELSE <<>>

RECURSIVE parse_loop(_, _)
parse_loop(elems, t) ==
    IF elems = <<>> THEN <<>>
    ELSE LET r == from_rss_item(Head(elems), t)
         IN  IF r.ok THEN <<r.item>> \o parse_loop(Tail(elems), t)
             ELSE parse_loop(Tail(elems), t)

\* Faulty variant of parse_items: a channel none of whose entries parses
\* gives an empty list.
parse_items_empty_list(xml_data, t) ==
    IF ~xml_data.wellformed THEN Raise("Invalid RSS XML")
    ELSE IF ~xml_data.channel THEN Raise("RSS feed missing 'channel' element")
    ELSE Return(parse_loop(xml_data.items, t))

parse_items(xml_data, t) ==
    IF ~xml_data.wellformed THEN Raise("Invalid RSS XML")
    ELSE IF ~xml_data.channel THEN Raise("RSS feed missing 'channel' element")
    ELSE LET items == parse_loop(xml_data.items, t)
         IN  IF items = <<>>
             THEN Raise("No valid press items found in RSS feed")
             ELSE Return(items)

(***************************************************************************)
(* The feed documents the upstream serves in this model.                   *)
(***************************************************************************)
ElemA == ItemElem(<<"A">>, <<"/", "1">>, <<"g", "1">>, DateAt(1),
                  << <<"V">>, <<"B">> >>, <<"d">>, <<>>)
ElemB == ItemElem(<<"B">>, <<"h", "t", "t", "p", ":", "/", "/", "k", "/", "2">>,
                  <<>>, DateAt(2), << <<"K">> >>, <<>>, <<"e">>)
ElemBad == ItemElem(<<"C">>, <<"h", "t", "t", "p", "x">>, <<"g", "3">>,
                    DateAt(3), <<>>, <<>>, <<>>)

FeedOne == RssXml(<<ElemA, ElemBad, ElemB>>)
FeedTwo == RssXml(<<ElemB>>)
FeedAllBad == RssXml(<<ElemBad>>)

Feeds == {FeedOne, FeedTwo, FeedAllBad, MalformedXml, NoChannelXml}

(***************************************************************************)
(* Program constants.                                                      *)
(***************************************************************************)
\* self.max_retries: the count handed to the constructor (the client of the
\* test suite is built with max_retries=2).  No code reads the attribute.
max_retries == 2

\* The arguments of @retry_on_failure on fetch_raw.
max_attempts == 3
delay == 1
backoff_factor == 2

RECURSIVE power(_, _)
power(b, n) == IF n = 0 THEN 1 ELSE b * power(b, n - 1)

\* Faulty variant of wait_time: every wait is the first delay.
wait_time_constant(attempt_index) == delay

\* wait_time = delay * (backoff_factor ** attempt)
wait_time(attempt_index) == delay * power(backoff_factor, attempt_index)

(***************************************************************************)
(* State.                                                                  *)
(*   now            the wall clock (time.time())                           *)
(*   cached_items   RssClient._cached_items: None or Some(list of items)   *)
(*   last_fetch     RssClient._last_fetch: None or Some(instant)           *)
(*   ttl_cache      RssClient._cache (a TTLCache): the entries             *)
(*                  [key, value, timestamp] of its dict, in insertion      *)
(*                  order                                                  *)
(*   pc             where each caller's coroutine stands: "idle", "http"   *)
(*                  (suspended in client.get), "sleep" (suspended in       *)
(*                  asyncio.sleep), "done" (the call has ended)            *)
(*   op             the operation the caller runs                          *)
(*   current_time   load_items_cached's local current_time                 *)
(*   attempt        async_wrapper's loop variable                          *)
(*   wake           the instant the caller's sleep ends                    *)
(*   result         how the caller's call ended                            *)
(*   response       the upstream's answer on which the caller's fetch_raw  *)
(*                  returned or raised (kept for the statements about the  *)
(*                  call; none while fetch_raw is still trying)            *)
(*   fetch_calls    how often the caller's call has entered fetch_raw      *)
(*   args           the arguments of the calls of a method that is studied *)
(*                  on its own (parse_items, generate_stable_id, the       *)
(*                  queries); none in the specifications of the client     *)
(*   returned       what those calls returned, in the order of the calls   *)
(***************************************************************************)
VARIABLES now, cached_items, last_fetch, ttl_cache,
          pc, op, current_time, attempt, wake, result, response, fetch_calls,
          args, returned

vars == <<now, cached_items, last_fetch, ttl_cache,
          pc, op, current_time, attempt, wake, result, response,
          fetch_calls, args, returned>>

store == <<cached_items, last_fetch, ttl_cache>>

TtlKeys == {"test"}
TtlValues == {"value"}

\* How a call ends.  via tells the path of load_items_cached that returned:
\* "cache" (line 131), "fetch" (line 142) or "stale" (line 147).
NoResult == [outcome |-> "none"]
Returned(v, via) == [outcome |-> "return", value |-> v, via |-> via]
Raised(e) == [outcome |-> "raise", error |-> e]
Cancelled == [outcome |-> "cancelled"]

\* What the upstream answers to one HTTP request: a document, an error of a
\* kind fetch_raw retries, or any other exception.
RetryableKinds == {"RequestError", "HTTPStatusError"}
Responses ==
    {[status |-> "ok", content |-> f] : f \in Feeds}
    \cup {[status |-> "error", kind |-> k] : k \in RetryableKinds \cup {"OtherError"}}

NoResponse == [status |-> "none"]

Suspended == {"http", "sleep"}

\* The client between two calls, before anything was fetched.
InitClient ==
    /\ now = 0
    /\ cached_items = None
    /\ last_fetch = None
    /\ ttl_cache = <<>>
    /\ pc = [c \in Callers |-> "idle"]
    /\ op = [c \in Callers |-> "none"]
    /\ current_time = [c \in Callers |-> 0]
    /\ attempt = [c \in Callers |-> 0]
    /\ wake = [c \in Callers |-> 0]
    /\ result = [c \in Callers |-> NoResult]
    /\ response = [c \in Callers |-> NoResponse]
    /\ fetch_calls = [c \in Callers |-> 0]

Init ==
    /\ InitClient
    /\ args = None
    /\ returned = <<>>

\* Time passes.
Tick ==
    /\ now < MaxTime
    /\ now' = now + 1
    /\ UNCHANGED <<args, returned, store, pc, op, current_time, attempt,
                   wake, result, response, fetch_calls>>

\* The call of caller c ends with result r.
Ends(c, r) ==
    /\ pc' = [pc EXCEPT ![c] = "done"]
    /\ result' = [result EXCEPT ![c] = r]
    /\ attempt' = [attempt EXCEPT ![c] = 0]
    /\ wake' = [wake EXCEPT ![c] = 0]

\* fetch_raw is entered: async_wrapper starts attempt 0 and the coroutine
\* suspends in client.get.
EntersFetchRaw(c) ==
    /\ pc' = [pc EXCEPT ![c] = "http"]
    /\ attempt' = [attempt EXCEPT ![c] = 0]
    /\ fetch_calls' = [fetch_calls EXCEPT ![c] = fetch_calls[c] + 1]
    /\ UNCHANGED <<wake, result, response>>

\* Faulty variant of IsFresh: the comparison is turned around.
IsFresh_inverted(t) ==
    /\ cached_items # None
    /\ last_fetch # None
    /\ t - last_fetch.val > cache_ttl

\* The freshness test of load_items_cached, for a call at instant t.
IsFresh(t) ==
    /\ cached_items # None
    /\ last_fetch # None
    /\ t - last_fetch.val < cache_ttl

\* Faulty variant of Install: the list is replaced and the timestamp is not.
Install_items_only(items, t) ==
    /\ cached_items' = Some(items)
    /\ UNCHANGED last_fetch

\* self._cached_items = items; self._last_fetch = t
Install(items, t) ==
    /\ cached_items' = Some(items)
    /\ last_fetch' = Some(t)

(***************************************************************************)
(* load_items_cached, from the call to its first suspension: the cached    *)
(* list is returned at once when it is fresh, otherwise fetch_raw starts.  *)
(***************************************************************************)
\* Faulty variant of load_items_cached: the call waits while another
\* caller's refresh is in flight.
load_items_cached_serialized(c) ==
    /\ pc[c] = "idle"
    /\ \A d \in Callers : pc[d] \notin Suspended
    /\ op' = [op EXCEPT ![c] = "load"]
    /\ current_time' = [current_time EXCEPT ![c] = now]
    /\ IF IsFresh(now)
       THEN /\ Ends(c, Returned(cached_items, "cache"))
            /\ UNCHANGED <<response, fetch_calls>>
       ELSE EntersFetchRaw(c)
    /\ UNCHANGED <<args, returned, now, store>>

\* Faulty variant of load_items_cached_begins: an installed list is
\* returned whatever its age.
load_items_cached_begins_any_age(c) ==
    /\ pc[c] = "idle"
    /\ op' = [op EXCEPT ![c] = "load"]
    /\ current_time' = [current_time EXCEPT ![c] = now]
    /\ IF cached_items # None
       THEN /\ Ends(c, Returned(cached_items, "cache"))
            /\ UNCHANGED <<response, fetch_calls>>
       ELSE EntersFetchRaw(c)
    /\ UNCHANGED <<now, store>>

\* What load_items_cached does to the client, whoever calls it.
load_items_cached_begins(c) ==
    /\ pc[c] = "idle"
    /\ op' = [op EXCEPT ![c] = "load"]
    /\ current_time' = [current_time EXCEPT ![c] = now]
    /\ IF IsFresh(now)
       THEN /\ Ends(c, Returned(cached_items, "cache"))
            /\ UNCHANGED <<response, fetch_calls>>
       ELSE EntersFetchRaw(c)
    /\ UNCHANGED <<now, store>>

\* load_items_cached, called on the client.
load_items_cached(c) ==
    /\ load_items_cached_begins(c)
    /\ UNCHANGED <<args, returned>>

\* Faulty variant of load_except: the error is raised although a snapshot
\* is installed.
load_except_raises(c, e) ==
    /\ Ends(c, Raised(e))
    /\ UNCHANGED <<cached_items, last_fetch>>

\* Faulty variant of load_except: without a snapshot the call returns an
\* empty list.
load_except_empty(c, e) ==
    /\ IF cached_items # None
       THEN Ends(c, Returned(cached_items, "stale"))
       ELSE Ends(c, Returned(Some(<<>>), "stale"))
    /\ UNCHANGED <<cached_items, last_fetch>>

\* Faulty variant of load_except: the fallback is remembered, the timestamp
\* is set to the time of the failure.
load_except_restamps(c, e) ==
    /\ IF cached_items # None
       THEN Ends(c, Returned(cached_items, "stale")) /\ last_fetch' = Some(now)
       ELSE Ends(c, Raised(e)) /\ UNCHANGED last_fetch
    /\ UNCHANGED cached_items

\* The except branch of load_items_cached (lines 144-148).
load_except(c, e) ==
    /\ IF cached_items # None
       THEN Ends(c, Returned(cached_items, "stale"))
       ELSE Ends(c, Raised(e))
    /\ UNCHANGED <<cached_items, last_fetch>>

\* load_items_cached after fetch_raw returned xml_data (lines 136-142).
load_continue(c, xml_data) ==
    LET parsed == parse_items(xml_data, now)
    IN  IF parsed.raised
        THEN load_except(c, parsed.error)
        ELSE /\ Install(parsed.value, current_time[c])
             /\ Ends(c, Returned(Some(parsed.value), "fetch"))

(***************************************************************************)
(* refresh_cache                                                           *)
(***************************************************************************)
refresh_cache(c) ==
    /\ pc[c] = "idle"
    /\ op' = [op EXCEPT ![c] = "refresh"]
    /\ EntersFetchRaw(c)
    /\ UNCHANGED <<args, returned, now, store, current_time>>

\* Faulty variant of refresh_except: an installed snapshot hides the error.
refresh_except_stale(c, e) ==
    /\ IF cached_items # None
       THEN Ends(c, Returned(None, "stale"))
       ELSE Ends(c, Raised([kind |-> "Exception",
                            msg |-> "Failed to refresh cache", cause |-> e]))
    /\ UNCHANGED <<cached_items, last_fetch>>

\* The except branch of refresh_cache (lines 249-250).
refresh_except(c, e) ==
    /\ Ends(c, Raised([kind |-> "Exception",
                       msg |-> "Failed to refresh cache", cause |-> e]))
    /\ UNCHANGED <<cached_items, last_fetch>>

\* Faulty variant of refresh_continue: the snapshot is stamped as
\* load_items_cached stamps it, with the caller's current_time.
refresh_continue_call_time(c, xml_data) ==
    LET parsed == parse_items(xml_data, now)
    IN  IF parsed.raised
        THEN refresh_except(c, parsed.error)
        ELSE /\ Install(parsed.value, current_time[c])
             /\ Ends(c, Returned(None, "fetch"))

\* refresh_cache after fetch_raw returned xml_data (lines 244-247).
refresh_continue(c, xml_data) ==
    LET parsed == parse_items(xml_data, now)
    IN  IF parsed.raised
        THEN refresh_except(c, parsed.error)
        ELSE /\ Install(parsed.value, now)
             /\ Ends(c, Returned(None, "fetch"))

(***************************************************************************)
(* clear_cache (synchronous: it runs in one piece).                        *)
(***************************************************************************)
\* clear_cache returns nothing; the result keeps what the call discarded.
Cleared(items, at, entries) ==
    [outcome |-> "return", value |-> None, via |-> "clear",
     discarded |-> [items |-> items, at |-> at, entries |-> entries]]

\* Faulty variant of clear_cache: _last_fetch is not reset.
clear_cache_keeps_last_fetch(c) ==
    /\ pc[c] = "idle"
    /\ op' = [op EXCEPT ![c] = "clear"]
    /\ cached_items' = None
    /\ ttl_cache' = <<>>
    /\ Ends(c, Cleared(cached_items, last_fetch, ttl_cache))
    /\ UNCHANGED <<args, returned, now, last_fetch, current_time, response, fetch_calls>>

clear_cache(c) ==
    /\ pc[c] = "idle"
    /\ op' = [op EXCEPT ![c] = "clear"]
    /\ cached_items' = None
    /\ last_fetch' = None
    /\ ttl_cache' = <<>>
    /\ Ends(c, Cleared(cached_items, last_fetch, ttl_cache))
    /\ UNCHANGED <<args, returned, now, current_time, response, fetch_calls>>

(***************************************************************************)
(* fetch_raw under retry_on_failure (async_wrapper).                       *)
(***************************************************************************)
\* fetch_raw returned xml_data to the operation that awaited it.
fetch_returns(c, xml_data) ==
    IF op[c] = "load" THEN load_continue(c, xml_data)
    ELSE refresh_continue(c, xml_data)

\* fetch_raw raised e into the operation that awaited it.
fetch_raises(c, e) ==
    IF op[c] = "load" THEN load_except(c, e) ELSE refresh_except(c, e)

\* The HTTP request of caller c is answered with r: the content is returned,
\* or the error is retried after a sleep, or it is raised.
async_wrapper_attempt(c, r) ==
    /\ pc[c] = "http"
    /\ IF r.status = "ok"
       THEN /\ fetch_returns(c, r.content)
            /\ response' = [response EXCEPT ![c] = r]
       ELSE IF r.kind \in RetryableKinds /\ attempt[c] < max_attempts - 1
            THEN /\ pc' = [pc EXCEPT ![c] = "sleep"]
                 /\ wake' = [wake EXCEPT ![c] = now + wait_time(attempt[c])]
                 /\ UNCHANGED <<cached_items, last_fetch, attempt, result,
                                response>>
            ELSE /\ fetch_raises(c, [kind |-> r.kind, attempt |-> attempt[c]])
                 /\ response' = [response EXCEPT ![c] = r]
    /\ UNCHANGED <<now, ttl_cache, op, current_time, fetch_calls>>

\* The same, in a call made on the client.
async_wrapper_response(c, r) ==
    /\ async_wrapper_attempt(c, r)
    /\ UNCHANGED <<args, returned>>

\* asyncio.sleep(wait_time) is over: the next attempt starts.
async_wrapper_wakes(c) ==
    /\ pc[c] = "sleep"
    /\ now >= wake[c]
    /\ pc' = [pc EXCEPT ![c] = "http"]
    /\ attempt' = [attempt EXCEPT ![c] = attempt[c] + 1]
    /\ wake' = [wake EXCEPT ![c] = 0]
    /\ UNCHANGED <<args, returned, now, store, op, current_time, result, response,
                   fetch_calls>>

(***************************************************************************)
(* The caller abandons its wait: the task is cancelled at its suspension   *)
(* point.  CancelledError is a BaseException, so neither "except           *)
(* exceptions" in async_wrapper nor "except Exception" in the operations   *)
(* catches it: the coroutine ends there.                                   *)
(***************************************************************************)
Cancel(c) ==
    /\ pc[c] \in Suspended
    /\ Ends(c, Cancelled)
    /\ UNCHANGED <<args, returned, now, store, op, current_time, response, fetch_calls>>

\* The caller has taken the result of its call and may call again.
Finish(c) ==
    /\ pc[c] = "done"
    /\ pc' = [pc EXCEPT ![c] = "idle"]
    /\ op' = [op EXCEPT ![c] = "none"]
    /\ result' = [result EXCEPT ![c] = NoResult]
    /\ current_time' = [current_time EXCEPT ![c] = 0]
    /\ response' = [response EXCEPT ![c] = NoResponse]
    /\ fetch_calls' = [fetch_calls EXCEPT ![c] = 0]
    /\ UNCHANGED <<args, returned, now, store, attempt, wake>>

Next ==
    \/ Tick
    \/ \E c \in Callers : load_items_cached(c)
    \/ \E c \in Callers : refresh_cache(c)
    \/ \E c \in Callers : clear_cache(c)
    \/ \E c \in Callers : \E r \in Responses : async_wrapper_response(c, r)
    \/ \E c \in Callers : async_wrapper_wakes(c)
    \/ \E c \in Callers : Cancel(c)
    \/ \E c \in Callers : Finish(c)

Spec == Init /\ [][Next]_vars

(***************************************************************************)
(* TTLCache (the auxiliary cache RssClient creates with ttl_seconds =      *)
(* cache_ttl and the default max_size).  Every method holds the lock for   *)
(* its whole body, so each runs in one piece.                              *)
(***************************************************************************)
\* The default max_size of TTLCache.
max_size == 1000

RECURSIVE without(_, _)
\* The entries of the dict m whose key is not in the set ks.
without(m, ks) ==
    IF m = <<>> THEN <<>>
    ELSE IF Head(m).key \in ks THEN without(Tail(m), ks)
         ELSE <<Head(m)>> \o without(Tail(m), ks)

ttl_keys(m) == {m[i].key : i \in 1..Len(m)}

\* Faulty variant of oldest_key: the entry of the greatest timestamp.
oldest_key_newest(m) ==
    LET i == CHOOSE i \in 1..Len(m) :
                 /\ \A j \in 1..Len(m) : m[i].timestamp >= m[j].timestamp
                 /\ \A j \in 1..(i - 1) : m[j].timestamp < m[i].timestamp
    IN  m[i].key

\* min(keys, key = timestamp): the first entry, in dict order, of the least
\* timestamp.
oldest_key(m) ==
    LET i == CHOOSE i \in 1..Len(m) :
                 /\ \A j \in 1..Len(m) : m[i].timestamp <= m[j].timestamp
                 /\ \A j \in 1..(i - 1) : m[j].timestamp > m[i].timestamp
    IN  m[i].key

\* self._cache[key] = (value, t): an entry of the key keeps its place.
ttl_store(m, k, v, t) ==
    IF k \in ttl_keys(m)
    THEN [i \in 1..Len(m) |->
             IF m[i].key = k THEN [key |-> k, value |-> v, timestamp |-> t]
             ELSE m[i]]
    ELSE Append(m, [key |-> k, value |-> v, timestamp |-> t])

\* The keys of the entries of m that are expired at t, for the time-to-live
\* ttl.
expired_keys(m, ttl, t) ==
    {m[i].key : i \in {j \in 1..Len(m) : t - m[j].timestamp >= ttl}}

\* What set leaves in the dict m of a cache of the given ttl and size, for a
\* call at t.
set_entries(m, ttl, size, k, v, t) ==
    LET swept == IF Len(m) >= size
                 THEN without(m, expired_keys(m, ttl, t)) ELSE m
        room == IF Len(m) >= size /\ Len(swept) >= size
                THEN without(swept, {oldest_key(swept)}) ELSE swept
    IN  ttl_store(room, k, v, t)

\* What get(k) returns on the dict m at t: the value of a live entry.
get_value(m, ttl, k, t) ==
    IF \E i \in 1..Len(m) : m[i].key = k /\ t - m[i].timestamp < ttl
    THEN Some((CHOOSE e \in {m[i] : i \in 1..Len(m)} : e.key = k).value)
    ELSE None

\* What get(k) leaves in the dict m: an expired entry of k is removed.
get_entries(m, ttl, k, t) ==
    IF \E i \in 1..Len(m) : m[i].key = k /\ ~(t - m[i].timestamp < ttl)
    THEN without(m, {k})
    ELSE m

TTLCache_set(k, v) ==
    /\ ttl_cache' = set_entries(ttl_cache, cache_ttl, max_size, k, v, now)
    /\ UNCHANGED <<args, returned, now, cached_items, last_fetch, pc, op, current_time,
                   attempt, wake, result, response, fetch_calls>>

\* get returns the value of a live entry and removes an expired one.
TTLCache_get(k) ==
    /\ ttl_cache' = get_entries(ttl_cache, cache_ttl, k, now)
    /\ UNCHANGED <<args, returned, now, cached_items, last_fetch, pc, op, current_time,
                   attempt, wake, result, response, fetch_calls>>

NextCache ==
    \/ Tick
    \/ \E c \in Callers : load_items_cached(c)
    \/ \E c \in Callers : clear_cache(c)
    \/ \E c \in Callers : \E r \in Responses : async_wrapper_response(c, r)
    \/ \E c \in Callers : async_wrapper_wakes(c)
    \/ \E c \in Callers : Finish(c)
    \/ \E k \in TtlKeys : \E v \in TtlValues : TTLCache_set(k, v)
    \/ \E k \in TtlKeys : TTLCache_get(k)

SpecCache == Init /\ [][NextCache]_vars

(***************************************************************************)
(* Steps of a call, as the statements below see them.                      *)
(***************************************************************************)
\* Caller c starts the operation o in this step.
Calls(c, o) == pc[c] = "idle" /\ op'[c] = o

\* The fetch_raw of caller c returns or raises in this step, and c's call
\* ends with it.
FetchEnded(c) ==
    pc[c] = "http" /\ pc'[c] = "done" /\ response'[c] # NoResponse

\* The refresh cycle of caller c fails in this step: fetch_raw raises, or
\* it returns a document that parse_items rejects.
RefreshFailed(c) ==
    /\ FetchEnded(c)
    /\ \/ response'[c].status = "error"
       \/ parse_items(response'[c].content, now).raised

\* The refresh cycle of caller c succeeds in this step.
RefreshSucceeded(c) ==
    /\ FetchEnded(c)
    /\ response'[c].status = "ok"
    /\ ~parse_items(response'[c].content, now).raised

\* The error with which the refresh cycle of c fails in this step.
Cause(c) ==
    IF response'[c].status = "error"
    THEN [kind |-> response'[c].kind, attempt |-> attempt[c]]
    ELSE parse_items(response'[c].content, now).error

\* The age of the installed snapshot at instant t.
Age(t) == t - last_fetch.val

(***************************************************************************)
(* C1.  Stale fallback.  A load_items_cached call on a snapshot of age     *)
(* >= cache_ttl starts a refresh; and when the refresh of a                *)
(* load_items_cached call fails while a snapshot is installed, the call    *)
(* returns that snapshot, item for item, instead of raising, and leaves    *)
(* the snapshot and its timestamp as they are.                             *)
(***************************************************************************)
StaleFallback ==
    [][\A c \in Callers :
          /\ (Calls(c, "load") /\ cached_items # None /\ last_fetch # None
                /\ Age(now) >= cache_ttl)
             => pc'[c] = "http"
          /\ (op[c] = "load" /\ RefreshFailed(c) /\ cached_items # None)
             => /\ result'[c] = Returned(cached_items, "stale")
                /\ cached_items' = cached_items
                /\ last_fetch' = last_fetch]_vars

\* A call has come back with the stale snapshot after its fetch failed.
StaleFallbackWitness ==
    \E c \in Callers :
        /\ pc[c] = "done" /\ op[c] = "load"
        /\ response[c].status = "error"
        /\ cached_items # None /\ last_fetch # None
        /\ current_time[c] - last_fetch.val >= cache_ttl
        /\ result[c] = Returned(cached_items, "stale")

(***************************************************************************)
(* C2.  No-cache failure.  When the refresh of a load_items_cached call    *)
(* fails while no snapshot is installed, the call raises the error of the  *)
(* failure and installs nothing; and no load_items_cached call returns an  *)
(* empty list.                                                             *)
(***************************************************************************)
NoCacheFailure ==
    /\ [][\A c \in Callers :
             (op[c] = "load" /\ RefreshFailed(c) /\ cached_items = None)
             => /\ result'[c] = Raised(Cause(c))
                /\ cached_items' = None
                /\ last_fetch' = last_fetch]_vars
    /\ [](\A c \in Callers :
             (op[c] = "load" /\ result[c].outcome = "return")
             => result[c].value # None /\ result[c].value.val # <<>>)

\* A call without a snapshot has raised after its retries were used up.
NoCacheFailureWitness ==
    \E c \in Callers :
        /\ pc[c] = "done" /\ op[c] = "load"
        /\ response[c].status = "error" /\ response[c].kind \in RetryableKinds
        /\ result[c].outcome = "raise"
        /\ cached_items = None /\ last_fetch = None

(***************************************************************************)
(* C3.  Idempotence under freshness.  A load_items_cached call on a        *)
(* snapshot of age < cache_ttl returns that snapshot at once, without      *)
(* entering fetch_raw and without touching the snapshot; so the calls made *)
(* while one snapshot is fresh add no fetch to the one that captured it.   *)
(***************************************************************************)
FreshIdempotence ==
    [][\A c \in Callers :
          (Calls(c, "load") /\ cached_items # None /\ last_fetch # None
             /\ Age(now) < cache_ttl)
          => /\ pc'[c] = "done"
             /\ result'[c] = Returned(cached_items, "cache")
             /\ fetch_calls'[c] = 0
             /\ cached_items' = cached_items
             /\ last_fetch' = last_fetch]_vars

\* One call has fetched the snapshot and a later call, inside the same TTL
\* window, has got the same snapshot from the cache.
FreshIdempotenceWitness ==
    \E c, d \in Callers :
        /\ c # d /\ pc[c] = "done" /\ pc[d] = "done"
        /\ cached_items # None /\ last_fetch # None
        /\ result[c] = Returned(cached_items, "fetch") /\ fetch_calls[c] = 1
        /\ result[d] = Returned(cached_items, "cache") /\ fetch_calls[d] = 0
        /\ current_time[d] > current_time[c]
        /\ current_time[d] - last_fetch.val < cache_ttl

(***************************************************************************)
(* C4.  refresh_cache failure.  When the fetch or the parse of a           *)
(* refresh_cache call fails, the call raises an error that wraps the       *)
(* cause, returns nothing in its place, and leaves the snapshot and its    *)
(* timestamp as they were.                                                 *)
(***************************************************************************)
RefreshFailure ==
    [][\A c \in Callers :
          (op[c] = "refresh" /\ RefreshFailed(c))
          => /\ result'[c] = Raised([kind |-> "Exception",
                                     msg |-> "Failed to refresh cache",
                                     cause |-> Cause(c)])
             /\ cached_items' = cached_items
             /\ last_fetch' = last_fetch]_vars

\* A refresh_cache call has raised while a snapshot stays installed.
RefreshFailureWitness ==
    \E c \in Callers :
        /\ pc[c] = "done" /\ op[c] = "refresh"
        /\ result[c].outcome = "raise"
        /\ result[c].error.cause.kind = "No valid press items found in RSS feed"
        /\ cached_items # None /\ last_fetch # None

(***************************************************************************)
(* C5.  refresh_cache success.  Whatever the snapshot is, a refresh_cache  *)
(* call enters fetch_raw, once; when the cycle succeeds the parsed items   *)
(* replace the snapshot and the timestamp becomes the current time, not    *)
(* earlier than the one before, so that the new snapshot is fresh.         *)
(***************************************************************************)
RefreshSuccess ==
    /\ [][\A c \in Callers :
             /\ Calls(c, "refresh")
                => /\ pc'[c] = "http"
                   /\ fetch_calls'[c] = 1
                   /\ cached_items' = cached_items
                   /\ last_fetch' = last_fetch
             /\ (op[c] = "refresh" /\ RefreshSucceeded(c))
                => /\ cached_items' =
                         Some(parse_items(response'[c].content, now).value)
                   /\ last_fetch' = Some(now)
                   /\ last_fetch # None => last_fetch.val <= now
                   /\ now' - last_fetch'.val < cache_ttl
                   /\ result'[c] = Returned(None, "fetch")]_vars
    /\ [](\A c \in Callers :
             (pc[c] = "done" /\ op[c] = "refresh") => fetch_calls[c] = 1)

\* A refresh_cache call has replaced a snapshot that was still fresh: the
\* other caller got the earlier snapshot from the cache at this instant.
RefreshSuccessWitness ==
    \E c, d \in Callers :
        /\ pc[c] = "done" /\ op[c] = "refresh"
        /\ result[c] = Returned(None, "fetch")
        /\ now > 0
        /\ last_fetch = Some(now)
        /\ cached_items = Some(parse_items(response[c].content, now).value)
        /\ pc[d] = "done" /\ op[d] = "load" /\ current_time[d] = now
        /\ result[d].outcome = "return" /\ result[d].via = "cache"
        /\ result[d].value # cached_items

(***************************************************************************)
(* C6.  clear_cache discards the snapshot, its timestamp and the entries   *)
(* of the auxiliary TTLCache; and a load_items_cached call that finds no   *)
(* snapshot, as clear_cache leaves the client, enters fetch_raw, whatever  *)
(* the age of the discarded snapshot was.                                  *)
(***************************************************************************)
ClearDiscards ==
    [][\A c \in Callers :
          /\ Calls(c, "clear")
             => cached_items' = None /\ last_fetch' = None /\ ttl_cache' = <<>>
          /\ (Calls(c, "load") /\ cached_items = None)
             => pc'[c] = "http" /\ fetch_calls'[c] = 1]_vars

\* clear_cache has discarded a fresh snapshot and an entry of the TTLCache,
\* and a load_items_cached call made at an instant at which that snapshot
\* would still be fresh is fetching.
ClearDiscardsWitness ==
    \E c, d \in Callers :
        /\ c # d /\ pc[d] = "done" /\ op[d] = "clear"
        /\ result[d].discarded.items # None
        /\ result[d].discarded.entries # <<>>
        /\ now - result[d].discarded.at.val < cache_ttl
        /\ cached_items = None /\ last_fetch = None /\ ttl_cache = <<>>
        /\ pc[c] = "http" /\ op[c] = "load" /\ current_time[c] = now
        /\ fetch_calls[c] = 1

(***************************************************************************)
(* C7.  Single in-flight refresh: at no time are two load_items_cached     *)
(* calls suspended in an HTTP request of their own.                        *)
(***************************************************************************)
SingleInFlight ==
    Cardinality({c \in Callers : op[c] = "load" /\ pc[c] = "http"}) <= 1

(***************************************************************************)
(* C8.  No torn snapshot.  The list and the timestamp are absent together; *)
(* the installed list and every list a load_items_cached call returns is   *)
(* the whole result of one parse; the list a call returns is the installed *)
(* one; and whenever the list or the timestamp changes, both are cleared,  *)
(* or both are set by one caller's successful cycle: the list to the parse *)
(* of that caller's document, the timestamp to that caller's stamp.        *)
(***************************************************************************)
CompleteParses ==
    {parse_items(f, t).value :
        f \in {g \in Feeds : ~parse_items(g, 0).raised}, t \in 0..MaxTime}

NoTornSnapshot ==
    /\ [](/\ (cached_items = None) <=> (last_fetch = None)
          /\ cached_items # None => cached_items.val \in CompleteParses
          /\ \A c \in Callers :
                (op[c] = "load" /\ result[c].outcome = "return")
                => /\ result[c].value # None
                   /\ result[c].value.val \in CompleteParses)
    /\ [][/\ \A c \in Callers :
                (pc[c] # "done" /\ pc'[c] = "done" /\ op'[c] = "load"
                   /\ result'[c].outcome = "return")
                => result'[c].value = cached_items'
          /\ (cached_items' # cached_items \/ last_fetch' # last_fetch)
             => \/ cached_items' = None /\ last_fetch' = None
                \/ \E c \in Callers :
                      /\ RefreshSucceeded(c)
                      /\ cached_items' =
                            Some(parse_items(response'[c].content, now).value)
                      /\ last_fetch' = Some(IF op[c] = "load"
                                            THEN current_time[c] ELSE now)]_vars

\* A caller holds the two-item snapshot it has just installed, whole and
\* with its own stamp, while the other caller's refresh is in flight.
NoTornSnapshotWitness ==
    \E c, d \in Callers :
        /\ c # d /\ pc[d] \in Suspended
        /\ pc[c] = "done" /\ op[c] = "load"
        /\ cached_items # None /\ Len(cached_items.val) = 2
        /\ result[c] = Returned(cached_items, "fetch")
        /\ last_fetch = Some(current_time[c])

(***************************************************************************)
(* C9.  Readers are not blocked by a refresh.  While another caller is     *)
(* suspended in its HTTP request or its backoff sleep, a caller for which  *)
(* the installed snapshot is of age < cache_ttl can call                   *)
(* load_items_cached, and the call ends in that same step with the         *)
(* installed snapshot.                                                     *)
(***************************************************************************)
ReadersNotBlocked ==
    \A c \in Callers :
        (/\ pc[c] = "idle"
         /\ cached_items # None /\ last_fetch # None /\ Age(now) < cache_ttl
         /\ \E d \in Callers \ {c} : pc[d] \in Suspended)
        => ENABLED (/\ load_items_cached(c)
                    /\ pc'[c] = "done"
                    /\ result'[c] = Returned(cached_items, "cache"))

\* A call made while the other caller was in its backoff sleep has come
\* back with the installed snapshot, and the other caller still sleeps.
ReadersNotBlockedWitness ==
    \E c, d \in Callers :
        /\ c # d /\ pc[d] = "sleep"
        /\ wake[d] - wait_time(attempt[d]) < now
        /\ pc[c] = "done" /\ op[c] = "load" /\ current_time[c] = now
        /\ cached_items # None
        /\ result[c] = Returned(cached_items, "cache")

(***************************************************************************)
(* C10.  Cancellation independence: a refresh that is in flight ends only  *)
(* when its fetch_raw has returned or raised, that is by installing its    *)
(* result or by failing on its own, also when its caller abandons the      *)
(* wait.                                                                   *)
(***************************************************************************)
CancellationIndependence ==
    [][\A c \in Callers :
          (pc[c] \in Suspended /\ pc'[c] \notin Suspended)
          => FetchEnded(c)]_vars

(***************************************************************************)
(* parse_items on its own: one document is parsed, more than once and at   *)
(* different instants (the test suite calls client.parse_items(xml) this   *)
(* way; the client calls it on every document fetch_raw returns).          *)
(***************************************************************************)
\* Most item entries of a document.
MaxItems == 3
\* Most calls of the method that is studied.
MaxCalls == 2

\* The GUID of ElemA again, between blanks, under another title and link.
ElemA2 == ItemElem(<<"B">>, <<"/", "3">>, <<" ", "g", "1", " ">>, DateAt(2),
                   <<>>, <<>>, <<>>)
\* An entry without pubDate, and one whose pubDate dateutil rejects.
ElemNoDate == ItemElem(<<"D">>, <<"/", "4">>, <<"g", "4">>, NoDate,
                       <<>>, <<>>, <<>>)
ElemBadDate == ItemElem(<<"E">>, <<"/", "5">>, <<>>, BadDate,
                        << <<"K">> >>, <<"d">>, <<>>)

ParseElems == {ElemA, ElemA2, ElemB, ElemBad, ElemNoDate, ElemBadDate}

\* Every document of at most MaxItems entries, and the two broken ones.
ParseDocs ==
    {RssXml(items) :
        items \in UNION {[1..n -> ParseElems] : n \in 0..MaxItems}}
    \cup {MalformedXml, NoChannelXml}

InitParse ==
    /\ InitClient
    /\ args \in {[xml_data |-> d] : d \in ParseDocs}
    /\ returned = <<>>

\* client.parse_items(xml_data), called at the instant now.
call_parse_items ==
    /\ Len(returned) < MaxCalls
    /\ returned' = Append(returned,
                          [at |-> now, out |-> parse_items(args.xml_data, now)])
    /\ UNCHANGED <<args, now, store, pc, op, current_time, attempt, wake,
                   result, response, fetch_calls>>

NextParse ==
    \/ Tick
    \/ call_parse_items

SpecParse == InitParse /\ [][NextParse]_vars

(***************************************************************************)
(* C11.  Configured retry count: a fetch_raw that ends by raising a        *)
(* transient error (every attempt of the cycle has then failed with one)   *)
(* has made exactly max_retries attempts.                                  *)
(***************************************************************************)
ConfiguredRetryCount ==
    [][\A c \in Callers :
          (/\ FetchEnded(c)
           /\ response'[c].status = "error"
           /\ response'[c].kind \in RetryableKinds)
          => attempt[c] + 1 = max_retries]_vars

(***************************************************************************)
(* The calls of parse_items, as the statements below see them.             *)
(***************************************************************************)
\* The places of the entries of the document that from_rss_item turns into
\* an item at instant t.
Parsable(t) ==
    {i \in 1..Len(args.xml_data.items) :
        from_rss_item(args.xml_data.items[i], t).ok}

\* The list parse_items returned in its k-th call.
ItemsOf(k) == returned[k].out.value

(***************************************************************************)
(* C12.  Id uniqueness within a snapshot: no list that parse_items returns *)
(* (the list load_items_cached and refresh_cache install) has two items of *)
(* the same id.                                                            *)
(***************************************************************************)
IdUniqueness ==
    \A k \in 1..Len(returned) :
        ~returned[k].out.raised
        => \A i, j \in 1..Len(ItemsOf(k)) :
               ItemsOf(k)[i].id = ItemsOf(k)[j].id => i = j

PerItemRecovery ==
    \A k \in 1..Len(returned) :
        LET d == args.xml_data
            t == returned[k].at
            out == returned[k].out
            kept == SelectSeq(d.items, LAMBDA e : from_rss_item(e, t).ok)
        IN  (d.wellformed /\ d.channel)
            => IF out.raised
               THEN /\ Parsable(t) = {}
                    /\ out.error.kind = "No valid press items found in RSS feed"
               ELSE /\ Len(out.value) = Len(kept)
                    /\ \A i \in 1..Len(kept) :
                          out.value[i] = from_rss_item(kept[i], t).item

\* parse_items has returned the two items around an entry that failed.
PerItemRecoveryWitness ==
    \E k \in 1..Len(returned) :
        /\ Len(args.xml_data.items) = 3
        /\ Parsable(returned[k].at) = {1, 3}
        /\ ~returned[k].out.raised
        /\ Len(ItemsOf(k)) = 2
        /\ ItemsOf(k)[1].title = strip(args.xml_data.items[1].title)
        /\ ItemsOf(k)[2].title = strip(args.xml_data.items[3].title)

(***************************************************************************)
(* generate_stable_id on its own, for every title, link and GUID made of   *)
(* a letter, the separator the function puts between title and link, and   *)
(* blanks.                                                                 *)
(***************************************************************************)
\* Longest title and link (blanks at the ends not counted).
MaxText == 3

Words(n) == UNION {[1..k -> {"a", "|"}] : k \in 0..n}

IdTexts ==
    Words(MaxText) \cup {<<" ">> \o w \o <<" ">> : w \in Words(1)}

\* guid: None, empty, blank, or a text with or without blanks around it.
IdGuids ==
    {None, Some(<<>>), Some(<<" ">>), Some(<<"g">>), Some(<<" ", "g", " ">>),
     Some(<<"a", "|", "a">>)}

InitId ==
    /\ InitClient
    /\ args \in [title : IdTexts, link : IdTexts, guid : IdGuids]
    /\ returned = <<>>

\* generate_stable_id(title, link, guid).  One call is studied in a
\* behaviour: the function reads nothing but its arguments.
call_generate_stable_id ==
    /\ returned = <<>>
    /\ returned' = Append(returned,
           [at |-> now,
            out |-> generate_stable_id(args.title, args.link, args.guid)])
    /\ UNCHANGED <<args, now, store, pc, op, current_time, attempt, wake,
                   result, response, fetch_calls>>

NextId == call_generate_stable_id

SpecId == InitId /\ [][NextId]_vars

\* The call was given a GUID that is not empty after trimming.
HasGuid == args.guid.some /\ strip(args.guid.val) # <<>>

\* '<trimmed title>|<trimmed link>'
Combined(title, link) == strip(title) \o <<"|">> \o strip(link)

\* The id is derived as stated: the trimmed GUID, or the digest.
DerivedAsStated(id) ==
    IF HasGuid THEN id = strip(args.guid.val)
    ELSE id = sha1_hexdigest(Combined(args.title, args.link))

(***************************************************************************)
(* C15 as stated.  Identity derivation: the id is the trimmed GUID when    *)
(* there is one, otherwise the digest of '<trimmed title>|<trimmed link>'; *)
(* and without GUID another title and link get the same id exactly when    *)
(* their trimmed title and trimmed link both equal those of the call.      *)
(***************************************************************************)
IdentityDerivationAsStated ==
    \A k \in 1..Len(returned) :
        /\ DerivedAsStated(returned[k].out)
        /\ ~HasGuid
           => \A t \in IdTexts, l \in IdTexts :
                  (generate_stable_id(t, l, None) = returned[k].out)
                  <=> (strip(t) = strip(args.title) /\ strip(l) = strip(args.link))

(***************************************************************************)
(* C15, amended.  Identity derivation: the id is the trimmed GUID when     *)
(* there is one, otherwise the digest of '<trimmed title>|<trimmed link>'; *)
(* and without GUID another title and link get the same id exactly when    *)
(* the two joined texts '<trimmed title>|<trimmed link>' are equal: always *)
(* when trimmed title and trimmed link are both equal, and only then when  *)
(* neither trimmed title contains '|'.                                     *)
(***************************************************************************)
IdentityDerivation ==
    \A k \in 1..Len(returned) :
        /\ DerivedAsStated(returned[k].out)
        /\ ~HasGuid
           => \A t \in IdTexts, l \in IdTexts :
                  LET same == generate_stable_id(t, l, None) = returned[k].out
                      equal == /\ strip(t) = strip(args.title)
                               /\ strip(l) = strip(args.link)
                      bar(x) == \E i \in 1..Len(x) : x[i] = "|"
                  IN  /\ same <=> Combined(t, l) = Combined(args.title, args.link)
                      /\ equal => same
                      /\ (same /\ ~bar(strip(t)) /\ ~bar(strip(args.title)))
                         => equal

\* A call without GUID has returned the digest of the joined text, which is
\* also the id of another title and link with the same joined text.
IdentityDerivationWitness ==
    /\ Len(returned) >= 1
    /\ args.guid = None
    /\ args.title = <<"a">> /\ args.link = <<"a", "|", "a">>
    /\ returned[1].out = sha1_hexdigest(<<"a", "|", "a", "|", "a">>)
    /\ returned[1].out = generate_stable_id(<<"a", "|", "a">>, <<"a">>, None)

(***************************************************************************)
(* C16.  Parse determinism: all calls of parse_items on one document, at   *)
(* whatever instants, return the same: the same items, field for field,    *)
(* or the same error.                                                      *)
(***************************************************************************)
ParseDeterminism ==
    \A j, k \in 1..Len(returned) : returned[j].out = returned[k].out

(***************************************************************************)
(* The queries: get_item_by_id, search_items and _score_item, on the list  *)
(* of items that load_items_cached has handed them.                        *)
(***************************************************************************)
\* str.lower(), on the letters that occur.
Upper ==
    <<"A", "B", "C", "D", "E", "F", "G", "H", "I", "J", "K", "L", "M", "N",
      "O", "P", "Q", "R", "S", "T", "U", "V", "W", "X", "Y", "Z", "Ä", "Ö",
      "Ü">>
Lower ==
    <<"a", "b", "c", "d", "e", "f", "g", "h", "i", "j", "k", "l", "m", "n",
      "o", "p", "q", "r", "s", "t", "u", "v", "w", "x", "y", "z", "ä", "ö",
      "ü">>

ToLower ==
    [ch \in {Upper[i] : i \in 1..Len(Upper)} |->
        Lower[CHOOSE i \in 1..Len(Upper) : Upper[i] = ch]]

lower_char(ch) == IF ch \in DOMAIN ToLower THEN ToLower[ch] ELSE ch

lower(s) == [i \in 1..Len(s) |-> lower_char(s[i])]

\* query in s
contains(query, s) ==
    \E i \in 0..(Len(s) - Len(query)) : SubSeq(s, i + 1, i + Len(query)) = query

\* (x or ""), for an optional text
or_empty(x) == IF x.some THEN x.val ELSE <<>>

RECURSIVE category_score(_, _)
\* The loop over item.categories of _score_item.
category_score(categories, query) ==
    IF categories = <<>> THEN 0
    ELSE (IF contains(query, lower(Head(categories))) THEN 2 ELSE 0)
         + category_score(Tail(categories), query)

\* Faulty variant of _score_item: a matching category counts once.
_score_item_any_category(item, query) ==
    (IF contains(query, lower(item.title)) THEN 3 ELSE 0)
    + (IF category_score(item.categories, query) > 0 THEN 2 ELSE 0)
    + (IF contains(query, lower(or_empty(item.description))) THEN 1 ELSE 0)

_score_item(item, query) ==
    (IF contains(query, lower(item.title)) THEN 3 ELSE 0)
    + category_score(item.categories, query)
    + (IF contains(query, lower(or_empty(item.description))) THEN 1 ELSE 0)

\* seq[:n], for n >= 0
first_n(seq, n) == SubSeq(seq, 1, IF n < Len(seq) THEN n ELSE Len(seq))

RECURSIVE scored(_, _)
\* The pairs (score, item) of the items whose score is > 0.
scored(items, query) ==
    IF items = <<>> THEN <<>>
    ELSE LET score == _score_item(Head(items), query)
         IN  (IF score > 0 THEN << <<score, Head(items)>> >> ELSE <<>>)
             \o scored(Tail(items), query)

\* Faulty variant of insert_desc: the pair goes before the pairs of its
\* score.
insert_desc_before_equal(sorted_items, pair) ==
    LET n == Cardinality({i \in 1..Len(sorted_items) :
                             sorted_items[i][1] > pair[1]})
    IN  SubSeq(sorted_items, 1, n) \o <<pair>>
        \o SubSeq(sorted_items, n + 1, Len(sorted_items))

\* The place of pair in the sorted list sorted_items: behind every pair
\* whose score is not less (the sort is stable).
insert_desc(sorted_items, pair) ==
    LET n == Cardinality({i \in 1..Len(sorted_items) :
                             sorted_items[i][1] >= pair[1]})
    IN  SubSeq(sorted_items, 1, n) \o <<pair>>
        \o SubSeq(sorted_items, n + 1, Len(sorted_items))

RECURSIVE sort_desc(_)
\* list.sort(key=lambda x: x[0], reverse=True)
sort_desc(pairs) ==
    IF pairs = <<>> THEN <<>>
    ELSE insert_desc(sort_desc(SubSeq(pairs, 1, Len(pairs) - 1)),
                     pairs[Len(pairs)])

\* Faulty variant of search_items: the list is cut to limit before it is
\* sorted.
search_items_cut_first(items, query, limit) ==
    LET query_lower == strip(lower(query))
        top == sort_desc(first_n(scored(items, query_lower), limit))
    IN  IF query_lower = <<>> THEN first_n(items, limit)
        ELSE [i \in 1..Len(top) |-> top[i][2]]

\* Faulty variant of search_items: the empty query is scored as any other.
search_items_scores_empty(items, query, limit) ==
    LET query_lower == strip(lower(query))
        top == first_n(sort_desc(scored(items, query_lower)), limit)
    IN  [i \in 1..Len(top) |-> top[i][2]]

\* search_items, after load_items_cached has returned items.
search_items(items, query, limit) ==
    LET query_lower == strip(lower(query))
        top == first_n(sort_desc(scored(items, query_lower)), limit)
    IN  IF query_lower = <<>> THEN first_n(items, limit)
        ELSE [i \in 1..Len(top) |-> top[i][2]]

RECURSIVE get_item_by_id_last(_, _)
\* Faulty variant of get_item_by_id: the list is scanned from its end.
get_item_by_id_last(items, item_id) ==
    IF items = <<>> THEN None
    ELSE IF items[Len(items)].id = item_id THEN Some(items[Len(items)])
         ELSE get_item_by_id_last(SubSeq(items, 1, Len(items) - 1), item_id)

RECURSIVE get_item_by_id(_, _)
\* get_item_by_id, after load_items_cached has returned items.
get_item_by_id(items, item_id) ==
    IF items = <<>> THEN None
    ELSE IF Head(items).id = item_id THEN Some(Head(items))
         ELSE get_item_by_id(Tail(items), item_id)

\* The characters of the model in the order of their code points.
CodePoints ==
    <<" ", "#", "-", "/", "0", "1", "2", "3", "4", "5", "6", "7", "8", "9",
      ":", "A", "B", "C", "D", "E", "F", "G", "H", "I", "J", "K", "L", "M",
      "N", "O", "P", "Q", "R", "S", "T", "U", "V", "W", "X", "Y", "Z", "a",
      "b", "c", "d", "e", "f", "g", "h", "i", "j", "k", "l", "m", "n", "o",
      "p", "q", "r", "s", "t", "u", "v", "w", "x", "y", "z", "|", "Ä", "Ö",
      "Ü", "ä", "ö", "ü">>

ord ==
    [ch \in {CodePoints[i] : i \in 1..Len(CodePoints)} |->
        CHOOSE i \in 1..Len(CodePoints) : CodePoints[i] = ch]

\* a < b for two str: at the first place where they differ a has the
\* smaller code point, or a ends there.
str_less(a, b) ==
    \E i \in 1..Len(b) :
        /\ i <= Len(a) + 1
        /\ SubSeq(a, 1, i - 1) = SubSeq(b, 1, i - 1)
        /\ \/ i = Len(a) + 1
           \/ ord[a[i]] < ord[b[i]]

\* The place of text in the sorted list: behind every text that is not
\* greater.
insert_asc(sorted_texts, text) ==
    LET n == Cardinality({i \in 1..Len(sorted_texts) :
                             ~str_less(text, sorted_texts[i])})
    IN  SubSeq(sorted_texts, 1, n) \o <<text>>
        \o SubSeq(sorted_texts, n + 1, Len(sorted_texts))

RECURSIVE sorted(_)
\* sorted(texts)
sorted(texts) ==
    IF texts = <<>> THEN <<>>
    ELSE insert_asc(sorted(SubSeq(texts, 1, Len(texts) - 1)),
                    texts[Len(texts)])

RECURSIVE list(_)
\* list(s) of a set: its elements, each once, in the order the set yields
\* them.
list(s) ==
    IF s = {} THEN <<>>
    ELSE LET x == CHOOSE x \in s : TRUE IN <<x>> \o list(s \ {x})

RECURSIVE categories_update(_, _)
\* The loop of get_categories: categories.update(item.categories) for every
\* item, from the set categories.
categories_update(categories, items) ==
    IF items = <<>> THEN categories
    ELSE LET item == Head(items)
         IN  categories_update(
                 categories \cup {item.categories[i] :
                                     i \in 1..Len(item.categories)},
                 Tail(items))

RECURSIVE categories_in_order(_)
\* The categories of the items one after the other, as the items carry
\* them.
categories_in_order(items) ==
    IF items = <<>> THEN <<>>
    ELSE Head(items).categories \o categories_in_order(Tail(items))

\* Faulty variant of get_categories: the categories come in the order of
\* the items and are neither merged nor sorted.
get_categories_listed(snapshot) ==
    IF snapshot = None THEN <<>>
    ELSE categories_in_order(snapshot.val)

\* get_categories, with self._cached_items = snapshot
get_categories(snapshot) ==
    IF snapshot = None THEN <<>>
    ELSE sorted(list(categories_update({}, snapshot.val)))

(***************************************************************************)
(* The tools of server.py.  A handler awaits load_items_cached (or a query *)
(* of the client that awaits it) and then runs to its end without another  *)
(* suspension, so what it answers is settled in the step in which the load *)
(* ends.  Every exception but HTTPException becomes the status 500.        *)
(***************************************************************************)
\* LatestParams.n and SearchParams.limit, when the request leaves them out.
default_n == 10
default_limit == 20

or_default(x, default) == IF x = None THEN default ELSE x.val

HTTPException(status_code) == [status_code |-> status_code]
Ok(body) == [status_code |-> 200, body |-> body]

\* datetime.isoformat(): the instant, and the offset of an aware datetime.
isoformat(d) ==
    <<"T", d.at>> \o (IF d.aware THEN <<"+", "0", "0", ":", "0", "0">> ELSE <<>>)

\* PressItemResponse(id=item.id, ...).dict(): raw_guid is left out.
PressItemResponse(item) ==
    [id |-> item.id, title |-> item.title, link |-> item.link,
     description |-> item.description,
     published_at |-> isoformat(item.published_at),
     categories |-> item.categories, source |-> item.source]

response_items(items) == [i \in 1..Len(items) |-> PressItemResponse(items[i])]

\* datetime raises TypeError when a naive and an aware value are compared,
\* and a sort of two or more values compares values of both kinds when the
\* list holds both.
sort_raises(items) ==
    \E i, j \in 1..Len(items) :
        items[i].published_at.aware # items[j].published_at.aware

\* sorted(items, key=lambda x: x.published_at, reverse=True)
sorted_items(items) ==
    LET pairs == [i \in 1..Len(items) |->
                     <<items[i].published_at.at, items[i]>>]
        sorted_pairs == sort_desc(pairs)
    IN  IF sort_raises(items) THEN Raise("TypeError")
        ELSE Return([i \in 1..Len(items) |-> sorted_pairs[i][2]])

\* The handler latest after load_items_cached has ended with loaded.
latest(n, loaded) ==
    IF loaded.outcome = "raise" THEN HTTPException(500)
    ELSE LET sorted_list == sorted_items(loaded.value.val)
         IN  IF sorted_list.raised THEN HTTPException(500)
             ELSE Ok([items |-> response_items(
                                    first_n(sorted_list.value,
                                            or_default(n, default_n)))])

\* The handler search after the load of search_items has ended.
search(query, limit, loaded) ==
    IF loaded.outcome = "raise" THEN HTTPException(500)
    ELSE Ok([items |-> response_items(
                           search_items(loaded.value.val, query,
                                        or_default(limit, default_limit)))])

\* Faulty variant of get_item: a missing item is an internal error.
get_item_miss_is_error(id, loaded) ==
    IF loaded.outcome = "raise" THEN HTTPException(500)
    ELSE LET item == get_item_by_id(loaded.value.val, id)
         IN  IF item = None THEN HTTPException(500)
             ELSE Ok(PressItemResponse(item.val))

\* The handler get_item after the load of get_item_by_id has ended.
get_item(id, loaded) ==
    IF loaded.outcome = "raise" THEN HTTPException(500)
    ELSE LET item == get_item_by_id(loaded.value.val, id)
         IN  IF item = None THEN HTTPException(404)
             ELSE Ok(PressItemResponse(item.val))

\* PressItem(id=..., title=..., link="https://example.com", ...)
PressItem(id, title, description, categories) ==
    [id |-> id, title |-> title,
     link |-> <<"h", "t", "t", "p", "s", ":", "/", "/", "k">>,
     description |-> description, published_at |-> datetime_now(0),
     categories |-> categories, raw_guid |-> None,
     source |-> "rss:stadt-koeln"]

\* The item of test_score_item.
TestItem ==
    PressItem(<<"t", "e", "s", "t", "-", "1">>,
        <<"K", "ö", "l", "n", "e", "r", " ", "S", "t", "a", "d", "t", "p",
          "a", "r", "k", " ", "w", "i", "r", "d", " ", "r", "e", "n", "o",
          "v", "i", "e", "r", "t">>,
        Some(<<"R", "e", "n", "o", "v", "i", "e", "r", "u", "n", "g", " ",
               "d", "e", "s", " ", "S", "t", "a", "d", "t", "p", "a", "r",
               "k", "s", " ", "i", "n", " ", "K", "ö", "l", "n">>),
        <<<<"P", "a", "r", "k">>,
          <<"R", "e", "n", "o", "v", "i", "e", "r", "u", "n", "g">>>>)

\* Items that match "baustellen" in the title, in a category, in the
\* description, and in two categories (under the id of ItemTitle).  Their
\* dates were parsed from texts with a time zone; the last one is of the
\* instant of the first.
ItemTitle ==
    [PressItem(<<"b", "1">>,
        <<"B", "a", "u", "s", "t", "e", "l", "l", "e", "n", " ", "N", "e",
          "w", "s">>,
        None,
        <<>>)
     EXCEPT !.published_at = datetime(3, TRUE)]

ItemCategory ==
    [PressItem(<<"b", "2">>,
        <<"V", "e", "r", "k", "e", "h", "r">>,
        None,
        <<<<"B", "a", "u", "s", "t", "e", "l", "l", "e", "n">>>>)
     EXCEPT !.published_at = datetime(1, TRUE)]

ItemDescription ==
    [PressItem(<<"b", "3">>,
        <<"H", "i", "n", "w", "e", "i", "s">>,
        Some(<<"N", "e", "u", "e", " ", "B", "a", "u", "s", "t", "e", "l",
               "l", "e", "n", " ", "i", "n", " ", "d", "e", "r", " ", "I",
               "n", "n", "e", "n", "s", "t", "a", "d", "t">>),
        <<>>)
     EXCEPT !.published_at = datetime(2, TRUE)]

ItemTwice ==
    [PressItem(<<"b", "1">>,
        <<"U", "m", "l", "e", "i", "t", "u", "n", "g">>,
        None,
        <<<<"B", "a", "u", "s", "t", "e", "l", "l", "e", "n">>,
          <<"S", "t", "r", "a", "s", "s", "e", "n", "b", "a", "u", "s", "t",
            "e", "l", "l", "e", "n">>>>)
     EXCEPT !.published_at = datetime(3, TRUE)]

\* An item whose categories are a lower-case text, the beginning of another
\* category and a category of the test's item; it had no pubDate and was
\* parsed at instant 2.
ItemKultur ==
    [PressItem(<<"b", "4">>,
        <<"K", "o", "n", "z", "e", "r", "t">>,
        None,
        <<<<"k", "u", "l", "t", "u", "r">>,
          <<"B", "a", "u">>,
          <<"P", "a", "r", "k">>>>)
     EXCEPT !.published_at = datetime_now(2)]

SearchItems ==
    {TestItem, ItemTitle, ItemCategory, ItemDescription, ItemTwice, ItemKultur}

\* The queries of test_score_item and of the ranking example.
stadtpark == <<"s", "t", "a", "d", "t", "p", "a", "r", "k">>
park == <<"p", "a", "r", "k">>
renovierung == <<"r", "e", "n", "o", "v", "i", "e", "r", "u", "n", "g">>
xyz == <<"x", "y", "z">>
baustellen == <<"b", "a", "u", "s", "t", "e", "l", "l", "e", "n">>
\* A query for which two of the items have one score.
bau == <<"b", "a", "u">>

\* The queries callers send: those, one in capitals and between blanks, the
\* empty one and a blank one.
Queries ==
    {stadtpark, park, renovierung, xyz, baustellen, bau,
     <<" ", "B", "a", "u", "s", "t", "e", "l", "l", "e", "n", " ">>,
     <<>>, <<" ">>}

\* The queries as search_items hands them to _score_item.
ScoreQueries == {strip(lower(q)) : q \in Queries} \ {<<>>}

\* Largest limit of a search.
MaxLimit == 3

ItemIds ==
    {item.id : item \in SearchItems}
    \cup {<<"n", "o", "n", "e", "x", "i", "s", "t", "e", "n", "t">>}

\* load_items_cached never returns an empty list.
InitSearch ==
    /\ InitClient
    /\ args \in {[items |-> items] :
                    items \in UNION {[1..n -> SearchItems] : n \in 1..MaxItems}}
    /\ returned = <<>>

\* One call is studied in a behaviour (a query changes nothing, so a later
\* call would return what it returns as the first); the query leaves the
\* state of the client alone.
QueryFrame ==
    /\ returned = <<>>
    /\ UNCHANGED <<args, now, store, pc, op, current_time, attempt, wake,
                   result, response, fetch_calls>>

call_get_item_by_id(item_id) ==
    /\ QueryFrame
    /\ returned' = <<[fn |-> "get_item_by_id", item_id |-> item_id,
                      out |-> get_item_by_id(args.items, item_id)]>>

call_search_items(query, limit) ==
    /\ QueryFrame
    /\ returned' = <<[fn |-> "search_items", query |-> query, limit |-> limit,
                      out |-> search_items(args.items, query, limit)]>>

\* The list is the installed snapshot.
call_get_categories ==
    /\ QueryFrame
    /\ returned' = <<[fn |-> "get_categories",
                      out |-> get_categories(Some(args.items))]>>

\* The handler latest, whose load has returned the list.
call_latest(n) ==
    /\ QueryFrame
    /\ returned' = <<[fn |-> "latest", n |-> n,
                      out |-> latest(n, Returned(Some(args.items), "cache"))]>>

call__score_item(item, query) ==
    /\ QueryFrame
    /\ returned' = <<[fn |-> "_score_item", item |-> item, query |-> query,
                      out |-> _score_item(item, query)]>>

NextSearch ==
    \/ \E item_id \in ItemIds : call_get_item_by_id(item_id)
    \/ \E query \in Queries : \E limit \in 1..MaxLimit :
          call_search_items(query, limit)
    \/ \E i \in 1..Len(args.items) : \E query \in ScoreQueries :
          call__score_item(args.items[i], query)
    \/ call_get_categories
    \/ \E n \in {None} \cup {Some(k) : k \in 1..MaxLimit} : call_latest(n)

SpecSearch == InitSearch /\ [][NextSearch]_vars

(***************************************************************************)
(* The calls of the queries, as the statements below see them.             *)
(***************************************************************************)
\* How often the value v occurs in the list seq.
Count(seq, v) == Cardinality({i \in 1..Len(seq) : seq[i] = v})

\* The lower-case text query occurs in text, whatever the case of text.
OccursIn(query, text) ==
    \E p \in 0..(Len(text) - Len(query)) :
        \A j \in 1..Len(query) : lower_char(text[p + j]) = query[j]

(***************************************************************************)
(* C17.  get_item_by_id returns the first item, in the order of the list,  *)
(* whose id is the requested one, and None (a value, no error) when no     *)
(* item has that id.                                                       *)
(***************************************************************************)
GetByIdFirstMatch ==
    \A k \in 1..Len(returned) :
        returned[k].fn = "get_item_by_id"
        => LET hits == {i \in 1..Len(args.items) :
                           args.items[i].id = returned[k].item_id}
           IN  IF hits = {} THEN returned[k].out = None
               ELSE returned[k].out =
                       Some(args.items[CHOOSE i \in hits :
                                          \A j \in hits : i <= j])

\* Two different items of the list have the requested id, neither is the
\* first of the list, and the call has returned the earlier one.
GetByIdFirstMatchWitness ==
    \E k \in 1..Len(returned) :
        /\ returned[k].fn = "get_item_by_id"
        /\ \E i, j \in 2..Len(args.items) :
              /\ i < j
              /\ args.items[i].id = returned[k].item_id
              /\ args.items[j].id = returned[k].item_id
              /\ args.items[i] # args.items[j]
              /\ returned[k].out = Some(args.items[i])

(***************************************************************************)
(* C18.  search_items with a query that is not empty once lower-cased and  *)
(* trimmed: every item of the result is an item of the list with score     *)
(* > 0, taken no more often than it occurs there; the scores do not        *)
(* increase along the result; the result has min(limit, number of items    *)
(* with score > 0) items; and an item with score > 0 is left out only when *)
(* no item of the result has a lower score.                                *)
(***************************************************************************)
SearchRanking ==
    \A k \in 1..Len(returned) :
        LET r == returned[k]
            query == strip(lower(r.query))
            hits == {i \in 1..Len(args.items) :
                        _score_item(args.items[i], query) > 0}
        IN  (r.fn = "search_items" /\ query # <<>>)
            => /\ \A n \in 1..Len(r.out) :
                     /\ _score_item(r.out[n], query) > 0
                     /\ Count(r.out, r.out[n]) <= Count(args.items, r.out[n])
               /\ \A n \in 1..(Len(r.out) - 1) :
                     _score_item(r.out[n], query)
                        >= _score_item(r.out[n + 1], query)
               /\ Len(r.out) = IF r.limit < Cardinality(hits)
                                THEN r.limit ELSE Cardinality(hits)
               /\ \A i \in hits :
                     Count(r.out, args.items[i])
                        < Count(args.items, args.items[i])
                     => \A n \in 1..Len(r.out) :
                            _score_item(r.out[n], query)
                               >= _score_item(args.items[i], query)

\* A search in capitals and between blanks, with limit 2, on a list whose
\* three items match in the description, in a category and in the title,
\* has returned the title match and then the category match.
SearchRankingWitness ==
    \E k \in 1..Len(returned) :
        /\ returned[k].fn = "search_items"
        /\ returned[k].query # strip(lower(returned[k].query))
        /\ strip(lower(returned[k].query)) = baustellen
        /\ returned[k].limit = 2
        /\ args.items = <<ItemDescription, ItemCategory, ItemTitle>>
        /\ returned[k].out = <<ItemTitle, ItemCategory>>

ScorePerMatchKind ==
    \A k \in 1..Len(returned) :
        (returned[k].fn = "_score_item" /\ returned[k].item = TestItem)
        => /\ returned[k].query = stadtpark => returned[k].out = 3
           /\ returned[k].query = park => returned[k].out = 2
           /\ returned[k].query = renovierung => returned[k].out = 1
           /\ returned[k].query = xyz => returned[k].out = 0


Min(a, b) == IF a < b THEN a ELSE b

(***************************************************************************)
(* C21.  A search whose query is empty, or holds nothing but white space,  *)
(* returns the first min(limit, length of the snapshot) items of the       *)
(* snapshot in the order of the snapshot: nothing is scored and nothing is *)
(* left out.                                                               *)
(***************************************************************************)
SearchEmptyQuery ==
    \A k \in 1..Len(returned) :
        LET r == returned[k]
        IN  (r.fn = "search_items" /\ strip(r.query) = <<>>) =>
                /\ Len(r.out) = Min(r.limit, Len(args.items))
                /\ \A i \in 1..Len(r.out) : r.out[i] = args.items[i]

\* A blank query with limit 2 on three items of which the second would
\* score more than the first and the third is cut.
SearchEmptyQueryWitness ==
    /\ args.items = <<ItemTitle, TestItem, ItemCategory>>
    /\ returned # <<>>
    /\ returned[1].fn = "search_items"
    /\ returned[1].query = <<" ">>
    /\ returned[1].limit = 2
    /\ returned[1].out = <<ItemTitle, TestItem>>
    /\ _score_item(TestItem, <<>>) > _score_item(ItemTitle, <<>>)

\* The categories that the items of a list carry.
CategoriesOf(items) ==
    UNION {{items[i].categories[j] : j \in 1..Len(items[i].categories)} :
              i \in 1..Len(items)}

(***************************************************************************)
(* C22.  For every installed snapshot get_categories returns the union of  *)
(* the categories of all items: every category of an item is in the list,  *)
(* nothing else is, none is in it twice, and the list ascends in           *)
(* lexicographic order.                                                    *)
(***************************************************************************)
CategoriesSortedUnion ==
    \A k \in 1..Len(returned) :
        LET out == returned[k].out
        IN  returned[k].fn = "get_categories" =>
                /\ {out[i] : i \in 1..Len(out)} = CategoriesOf(args.items)
                /\ \A i, j \in 1..Len(out) : i < j => str_less(out[i], out[j])

\* A snapshot in which a category comes twice, one category begins another
\* and a lower-case category stands first.
CategoriesSortedUnionWitness ==
    /\ args.items = <<ItemKultur, ItemTwice, TestItem>>
    /\ returned # <<>>
    /\ returned[1].fn = "get_categories"
    /\ returned[1].out =
           << <<"B", "a", "u">>,
              <<"B", "a", "u", "s", "t", "e", "l", "l", "e", "n">>,
              <<"P", "a", "r", "k">>,
              <<"R", "e", "n", "o", "v", "i", "e", "r", "u", "n", "g">>,
              <<"S", "t", "r", "a", "s", "s", "e", "n", "b", "a", "u", "s",
                "t", "e", "l", "l", "e", "n">>,
              <<"k", "u", "l", "t", "u", "r">> >>

\* The instant of the published_at text of a response item.
InstantOf(response_item) == response_item.published_at[2]

(***************************************************************************)
(* C25.  For every snapshot and every n of 1..100 (10 when the request     *)
(* has none) latest answers with min(n, length of the snapshot) items of   *)
(* the snapshot, ordered from the newest publication date to the oldest,   *)
(* and no item left out is newer than an item of the answer.               *)
(***************************************************************************)
LatestNewestFirst ==
    \A k \in 1..Len(returned) :
        returned[k].fn = "latest" =>
            LET out == returned[k].out
                n == or_default(returned[k].n, default_n)
                items == args.items
            IN  /\ out.status_code = 200
                /\ Len(out.body.items) = Min(n, Len(items))
                /\ \A i, j \in 1..Len(out.body.items) :
                       i < j => InstantOf(out.body.items[i])
                                    >= InstantOf(out.body.items[j])
                /\ \E f \in [1..Len(out.body.items) -> 1..Len(items)] :
                       /\ \A i, j \in DOMAIN f : f[i] = f[j] => i = j
                       /\ \A i \in DOMAIN f :
                              out.body.items[i] = PressItemResponse(items[f[i]])
                       /\ \A j \in 1..Len(items) :
                              (\A i \in DOMAIN f : f[i] # j) =>
                                  \A i \in DOMAIN f :
                                      items[j].published_at.at
                                          <= items[f[i]].published_at.at

(***************************************************************************)
(* C30.  Items of one score keep the order they have in the snapshot, and  *)
(* where the limit cuts a group of one score the items that come first in  *)
(* the snapshot stay: the result of a search with a non-empty query is the *)
(* one list that takes items of the snapshot by descending score and,      *)
(* within a score, by ascending place, so that it is fixed by the          *)
(* snapshot, the query and the limit.                                      *)
(***************************************************************************)
SearchStableTies ==
    \A k \in 1..Len(returned) :
        LET r == returned[k]
            q == strip(lower(r.query))
            items == args.items
            score(i) == _score_item(items[i], q)
            Before(i, j) == \/ score(i) > score(j)
                            \/ score(i) = score(j) /\ i < j
        IN  (r.fn = "search_items" /\ q # <<>>) =>
                \E f \in [1..Len(r.out) -> 1..Len(items)] :
                    /\ \A i \in DOMAIN f : r.out[i] = items[f[i]]
                    /\ \A i, j \in DOMAIN f : i < j => Before(f[i], f[j])
                    /\ \A j \in 1..Len(items) :
                           (\A i \in DOMAIN f : f[i] # j) =>
                               \/ score(j) = 0
                               \/ /\ Len(r.out) = r.limit
                                  /\ \A i \in DOMAIN f : Before(f[i], j)

\* Three items match 'bau', the second and the third with one score (2):
\* with limit 2 the answer is the best one and the earlier of the two.
SearchStableTiesWitness ==
    /\ args.items = <<ItemKultur, ItemCategory, ItemTitle>>
    /\ returned # <<>>
    /\ returned[1].fn = "search_items"
    /\ returned[1].query = bau
    /\ returned[1].limit = 2
    /\ returned[1].out = <<ItemTitle, ItemKultur>>
    /\ _score_item(ItemKultur, bau) = _score_item(ItemCategory, bau)

\* Faulty variant of categories: a failed load is answered with an empty
\* list.
categories_swallows(loaded, snapshot) ==
    IF loaded.outcome = "raise" THEN Ok([categories |-> <<>>])
    ELSE Ok([categories |-> get_categories(snapshot)])

\* The handler categories after load_items_cached has ended, with
\* self._cached_items = snapshot.
categories(loaded, snapshot) ==
    IF loaded.outcome = "raise" THEN HTTPException(500)
    ELSE Ok([categories |-> get_categories(snapshot)])

(***************************************************************************)
(* The server over the client.  One request is followed from its arrival   *)
(* to its answer, while another caller loads and clears the client, before *)
(* the request and beside it; get_categories is also called on the client  *)
(* itself, as the tests do.  args is the request with what held when it    *)
(* arrived, returned holds the answer once the handler has ended.          *)
(***************************************************************************)
\* A feed with an entry that has no pubDate before one that has a date.
FeedUndated == RssXml(<<ElemNoDate, ElemA>>)

ServerResponses ==
    {[status |-> "ok", content |-> f] : f \in {FeedOne, FeedUndated}}
    \cup {[status |-> "error", kind |-> "RequestError"]}

nonexistent == <<"n", "o", "n", "e", "x", "i", "s", "t", "e", "n", "t">>

ServerRequests ==
    {[tool |-> "latest", n |-> None],
     [tool |-> "search", query |-> <<"a">>, limit |-> Some(1)],
     [tool |-> "categories"]}
    \cup {[tool |-> "get", id |-> id] : id \in {<<"g", "1">>, nonexistent}}

\* The caller that brings the request, and the caller that uses the client
\* beside it (the callers are alike).
Requester == "c1"
Bystander == "c2"

\* What the handler of request answers once its load has ended with loaded
\* and left self._cached_items = snapshot.
respond(request, loaded, snapshot) ==
    CASE request.tool = "latest" -> latest(request.n, loaded)
      [] request.tool = "search" ->
             search(request.query, request.limit, loaded)
      [] request.tool = "get" -> get_item(request.id, loaded)
      [] request.tool = "categories" -> categories(loaded, snapshot)

\* The request as it arrives at caller c.
Arrives(c, request) ==
    /\ args = None
    /\ args' = Some([caller |-> c, request |-> request,
                     snapshot |-> cached_items # None,
                     fresh |-> IsFresh(now)])

\* Caller c handles a request that is not answered yet.
Serving(c) == args # None /\ args.val.caller = c /\ returned = <<>>

\* The handler ends in the step in which its load ends.
Answers(c, request) ==
    returned' = IF pc'[c] = "done"
                THEN <<respond(request, result'[c], cached_items')>>
                ELSE <<>>

\* A handler from the arrival of the request to its first suspension.
tool_called(c, request) ==
    /\ Arrives(c, request)
    /\ load_items_cached_begins(c)
    /\ Answers(c, request)

\* The HTTP request of the handler's fetch_raw is answered with r.
tool_resumed(c, r) ==
    /\ Serving(c)
    /\ async_wrapper_attempt(c, r)
    /\ Answers(c, args.val.request)
    /\ UNCHANGED args

\* client.get_categories() is called: it returns without a suspension.
get_categories_called(c) ==
    /\ pc[c] = "idle"
    /\ Arrives(c, [tool |-> "get_categories"])
    /\ returned' = <<Return(get_categories(cached_items))>>
    /\ UNCHANGED <<now, store, pc, op, current_time, attempt, wake, result,
                   response, fetch_calls>>

\* The request is not answered yet: a behaviour ends with the answer.
Unanswered == returned = <<>>

\* The HTTP request of a load that no handler awaits is answered with r.
client_resumed(c, r) ==
    /\ Unanswered
    /\ ~Serving(c)
    /\ async_wrapper_response(c, r)

NextServer ==
    \/ Unanswered /\ Tick
    \/ \E request \in ServerRequests : tool_called(Requester, request)
    \/ \E r \in ServerResponses : tool_resumed(Requester, r)
    \/ get_categories_called(Requester)
    \/ Unanswered /\ load_items_cached(Bystander)
    \/ Unanswered /\ clear_cache(Bystander)
    \/ \E r \in ServerResponses : client_resumed(Bystander, r)
    \/ \E c \in Callers : Unanswered /\ async_wrapper_wakes(c)
    \/ Unanswered /\ Finish(Bystander)

SpecServer == Init /\ [][NextServer]_vars

\* The request has been answered with answer.
Answered(tool, answer) ==
    /\ args # None
    /\ args.val.request.tool = tool
    /\ returned = <<answer>>

\* A text list ascends strictly.
Ascends(texts) == \A i, j \in 1..Len(texts) : i < j => str_less(texts[i], texts[j])

AbsentOrStale ==
    \/ cached_items = None
    \/ last_fetch = None
    \/ now - last_fetch.val >= cache_ttl

\* A request for one of the tools arrives in this step.
ArrivesNow(tools) ==
    /\ args = None
    /\ args' # None
    /\ args'.val.request.tool \in tools

\* The step starts a refresh attempt of the requester and gives no answer.
AttemptsRefresh ==
    /\ pc'[Requester] = "http"
    /\ fetch_calls'[Requester] = fetch_calls[Requester] + 1
    /\ returned' = <<>>

\* The step answers a request that arrived when the snapshot was absent or
\* stale.
AnswersNow(tools) ==
    /\ args' # None
    /\ args'.val.request.tool \in tools
    /\ ~args'.val.fresh
    /\ returned = <<>>
    /\ returned' # <<>>

(***************************************************************************)
(* C24 as stated.  Each of get_item_by_id, search_items and get_categories *)
(* calls load_items_cached before it reads the snapshot: called while the  *)
(* snapshot is absent or stale it starts a refresh attempt, and it gives   *)
(* no answer before it has made one.                                       *)
(***************************************************************************)
QueriesEnsureFreshAsStated ==
    [][/\ (ArrivesNow({"get", "search", "get_categories"}) /\ AbsentOrStale)
             => AttemptsRefresh
       /\ AnswersNow({"get", "search", "get_categories"})
             => fetch_calls'[Requester] >= 1]_vars

(***************************************************************************)
(* C24, amended.  get_item_by_id and search_items call load_items_cached   *)
(* before they read the snapshot, and so does the categories tool: called  *)
(* while the snapshot is absent or stale each starts a refresh attempt and *)
(* gives no answer before it has made one.  get_categories of the client   *)
(* reads the installed snapshot as it is: it starts no refresh attempt,    *)
(* changes nothing and returns the sorted categories of that snapshot at   *)
(* once (the empty list when none is installed).                           *)
(***************************************************************************)
QueriesEnsureFresh ==
    [][/\ (ArrivesNow({"get", "search", "categories"}) /\ AbsentOrStale)
             => AttemptsRefresh
       /\ AnswersNow({"get", "search", "categories"})
             => fetch_calls'[Requester] >= 1
       /\ ArrivesNow({"get_categories"}) =>
             /\ UNCHANGED <<store, pc, fetch_calls>>
             /\ returned' # <<>>
             /\ ~returned'[1].raised
             /\ Ascends(returned'[1].value)
             /\ {returned'[1].value[i] : i \in 1..Len(returned'[1].value)}
                = (IF cached_items = None THEN {}
                   ELSE CategoriesOf(cached_items.val))]_vars

\* A search that arrived when the installed snapshot was stale has been
\* answered from the snapshot that its one refresh attempt installed.
QueriesEnsureFreshWitness ==
    /\ args # None
    /\ args.val.request.tool = "search"
    /\ args.val.snapshot
    /\ ~args.val.fresh
    /\ returned # <<>>
    /\ returned[1].status_code = 200
    /\ result[Requester].outcome = "return"
    /\ result[Requester].via = "fetch"
    /\ fetch_calls[Requester] = 1

\* The places of the list at which the item has the id.
PlacesOf(items, id) == {i \in 1..Len(items) : items[i].id = id}

(***************************************************************************)
(* C26.  The get tool answers 404 exactly when the lookup of the client    *)
(* ended and found no item of the id, 500 exactly when the lookup raised,  *)
(* and otherwise 200 with the item found (the first of that id).           *)
(***************************************************************************)
GetStatus ==
    (args # None /\ args.val.request.tool = "get" /\ returned # <<>>) =>
        LET loaded == result[Requester]
            answer == returned[1]
            id == args.val.request.id
        IN  /\ answer.status_code \in {200, 404, 500}
            /\ answer.status_code = 500 <=> loaded.outcome = "raise"
            /\ answer.status_code = 404 <=>
                   /\ loaded.outcome = "return"
                   /\ PlacesOf(loaded.value.val, id) = {}
            /\ answer.status_code = 200 =>
                   \E i \in PlacesOf(loaded.value.val, id) :
                       /\ \A j \in PlacesOf(loaded.value.val, id) : i <= j
                       /\ answer.body = PressItemResponse(loaded.value.val[i])

\* A loaded snapshot has no item of the id asked for: the answer is 404.
GetStatusWitness ==
    /\ Answered("get", HTTPException(404))
    /\ args.val.request.id = nonexistent
    /\ result[Requester].outcome = "return"
    /\ Len(result[Requester].value.val) = 2

\* The id of the entry of FeedUndated that has no pubDate.
UndatedId == ElemNoDate.guid

(***************************************************************************)
(* C27.  An item without usable pubDate has the time of its parse as       *)
(* published_at, and latest then succeeds with that item first, before     *)
(* every item of the snapshot whose parsed date is in the past.            *)
(***************************************************************************)
UndatedRanksNewest ==
    (args # None /\ args.val.request.tool = "latest" /\ returned # <<>>
        /\ result[Requester].outcome = "return") =>
        LET items == result[Requester].value.val
            answer == returned[1]
        IN  \A i \in PlacesOf(items, UndatedId) :
                (/\ items[i].published_at.at <= now
                 /\ \A j \in 1..Len(items) :
                        j # i => items[j].published_at.at
                                     < items[i].published_at.at)
                => /\ answer.status_code = 200
                   /\ answer.body.items[1] = PressItemResponse(items[i])

(***************************************************************************)
(* from_rss_item on its own, for the link of the item: entries that differ *)
(* in the text of their link element.                                      *)
(***************************************************************************)
LinkWords(n) == UNION {[1..k -> {"a", "/"}] : k \in 0..n}

\* What a link text begins with: nothing, a slash, a blank, the schemes
\* http, https, ftp and mailto, and "http" without a scheme.
LinkPrefixes ==
    {<<>>, <<"/">>, <<" ">>,
     <<"h", "t", "t", "p", ":", "/", "/", "k">>,
     <<"h", "t", "t", "p", "s", ":", "/", "/", "k">>,
     <<"f", "t", "p", ":", "/", "/", "k">>,
     <<"m", "a", "i", "l", "t", "o", ":">>,
     <<"h", "t", "t", "p">>}

LinkTexts == {p \o w : p \in LinkPrefixes, w \in LinkWords(MaxText)}

InitLink ==
    /\ InitClient
    /\ args \in [link : LinkTexts]
    /\ returned = <<>>

\* from_rss_item(item_element) for an entry with the link text.
call_from_rss_item ==
    /\ returned = <<>>
    /\ returned' = <<[fn |-> "from_rss_item",
                      out |-> from_rss_item(
                                  ItemElem(<<"T">>, args.link, <<>>, NoDate,
                                           <<>>, <<>>, <<>>),
                                  now)]>>
    /\ UNCHANGED <<args, now, store, pc, op, current_time, attempt, wake,
                   result, response, fetch_calls>>

NextLink == call_from_rss_item

SpecLink == InitLink /\ [][NextLink]_vars

\* The text carries a scheme: letters and then a colon.
CarriesScheme(text) ==
    \E i \in 2..Len(text) :
        /\ text[i] = ":"
        /\ \A j \in 1..(i - 1) : text[j] \in DOMAIN ord /\ ord[text[j]] >= ord["A"]
                                 /\ text[j] # "|"

(***************************************************************************)
(* C28.  The link of an item is the trimmed link text behind the base URL  *)
(* when the text starts with '/', the trimmed text itself when it is       *)
(* absolute already (it carries a scheme), and in every other case the     *)
(* text behind the base URL and a '/'.                                     *)
(***************************************************************************)
LinkResolution ==
    \A k \in 1..Len(returned) :
        returned[k].fn = "from_rss_item" =>
            LET link_text == strip(args.link)
                out == returned[k].out
            IN  /\ out.ok
                /\ out.item.link =
                       IF startswith(link_text, <<"/">>)
                       THEN base_url \o link_text
                       ELSE IF CarriesScheme(link_text) THEN link_text
                       ELSE base_url \o <<"/">> \o link_text

\* The seconds that the waits before attempt k take together (1 s after
\* attempt 0, 2 s after attempt 1).
WaitsBefore(k) == IF k = 0 THEN 0 ELSE IF k = 1 THEN 1 ELSE 3

\* The error fetch_raw raised, in a call that ends by raising it.
FetchErrorRaised(c) ==
    IF op[c] = "refresh" THEN result'[c].error.cause ELSE result'[c].error

(***************************************************************************)
(* C29.  The backoff of fetch_raw (3 attempts).  After failed attempt i    *)
(* that is not the last one the wait is 1 s for i = 0 and 2 s for i = 1,   *)
(* and the next attempt starts no earlier; the last attempt is followed by *)
(* no wait.  A success on attempt k ends fetch_raw at once, after k + 1    *)
(* attempts and the k waits before them.  After the third failed attempt   *)
(* the error raised is the one of that attempt.  An error of a kind that   *)
(* is not retried is raised by the attempt that met it, with no wait       *)
(* behind it.                                                              *)
(***************************************************************************)
BackoffSchedule ==
    [][\A c \in Callers :
          /\ (pc[c] = "http" /\ pc'[c] = "sleep") =>
                /\ attempt[c] < max_attempts - 1
                /\ attempt'[c] = attempt[c]
                /\ wake'[c] = now + (IF attempt[c] = 0 THEN 1 ELSE 2)
          /\ (pc[c] = "sleep" /\ pc'[c] = "http") =>
                /\ now >= wake[c]
                /\ attempt'[c] = attempt[c] + 1
          /\ (pc[c] = "http" /\ attempt[c] = max_attempts - 1) =>
                pc'[c] # "sleep"
          /\ (pc[c] = "http" /\ response'[c].status = "ok") =>
                /\ pc'[c] = "done"
                /\ fetch_calls'[c] = 1
                /\ op[c] = "load" =>
                       now >= current_time[c] + WaitsBefore(attempt[c])
          /\ (pc[c] = "http" /\ response'[c].status = "error") =>
                /\ pc'[c] = "done"
                /\ response'[c].kind \in RetryableKinds
                       => attempt[c] = max_attempts - 1
                /\ result'[c].outcome = "raise" =>
                       FetchErrorRaised(c) = [kind |-> response'[c].kind,
                                              attempt |-> attempt[c]]]_vars

\* The third attempt of a load is under way, three seconds after the call:
\* two attempts have failed and both waits are over.
BackoffScheduleWitness ==
    \E c \in Callers :
        /\ pc[c] = "http"
        /\ op[c] = "load"
        /\ attempt[c] = max_attempts - 1
        /\ now = current_time[c] + 3
        /\ fetch_calls[c] = 1

(***************************************************************************)
(* C31.  Capture time is the install time.  Whenever a refresh cycle       *)
(* succeeds, of a load_items_cached call as well as of a refresh_cache     *)
(* call, the timestamp of the installed snapshot is the time of that       *)
(* step, so that the snapshot has age 0 when it is installed and is fresh  *)
(* until cache_ttl has passed since then.                                  *)
(***************************************************************************)
CaptureIsInstallTime ==
    [][\A c \in Callers :
          RefreshSucceeded(c)
          => /\ last_fetch' = Some(now)
             /\ now' - last_fetch'.val = 0
             /\ \A t \in now'..(now' + cache_ttl - 1) :
                   t - last_fetch'.val < cache_ttl]_vars

(***************************************************************************)
(* C32.  Snapshot and timestamp are paired.  In every state the calls of   *)
(* load_items_cached, refresh_cache and clear_cache can lead to, in any    *)
(* interleaving, _cached_items is None exactly when _last_fetch is None.   *)
(***************************************************************************)
SnapshotTimestampPaired ==
    cached_items = None <=> last_fetch = None

\* clear_cache has discarded an installed snapshot with its timestamp, and
\* a refresh_cache call has installed a snapshot at a later time.
SnapshotTimestampPairedWitness ==
    \E c, d \in Callers :
        /\ c # d
        /\ pc[c] = "done" /\ op[c] = "clear"
        /\ result[c].discarded.items # None
        /\ result[c].discarded.at # None
        /\ pc[d] = "done" /\ op[d] = "refresh"
        /\ result[d] = Returned(None, "fetch")
        /\ cached_items # None /\ last_fetch = Some(now)
        /\ now > result[c].discarded.at.val

\* The refresh cycle of caller c ends in this step with a document that was
\* fetched and that parse_items rejects.
ParseFailed(c) ==
    /\ FetchEnded(c)
    /\ response'[c].status = "ok"
    /\ parse_items(response'[c].content, now).raised

(***************************************************************************)
(* C33.  An installed snapshot is never empty, and a bad feed never        *)
(* replaces a good snapshot.  The installed list always holds at least one *)
(* item; and when the fetch of a load_items_cached or refresh_cache call   *)
(* succeeds but parse_items rejects the document (malformed, without       *)
(* channel, or without any valid item), the snapshot and its timestamp     *)
(* stay as they were, and a load_items_cached call returns that snapshot   *)
(* if there is one.                                                        *)
(***************************************************************************)
BadFeedKeepsSnapshot ==
    /\ [](cached_items # None => Len(cached_items.val) >= 1)
    /\ [][\A c \in Callers :
             ParseFailed(c)
             => /\ cached_items' = cached_items
                /\ last_fetch' = last_fetch
                /\ (op[c] = "load" /\ cached_items # None)
                   => result'[c] = Returned(cached_items, "stale")]_vars

\* A load_items_cached call on a stale two-item snapshot has fetched a feed
\* without any valid item and has come back with the two items.
BadFeedKeepsSnapshotWitness ==
    \E c \in Callers :
        /\ pc[c] = "done" /\ op[c] = "load"
        /\ response[c] = [status |-> "ok", content |-> FeedAllBad]
        /\ cached_items # None /\ Len(cached_items.val) = 2
        /\ current_time[c] - last_fetch.val >= cache_ttl
        /\ result[c] = Returned(cached_items, "stale")

(***************************************************************************)
(* An outage of the upstream: calls of load_items_cached that follow one   *)
(* another, each made when no other call is in flight, over a time long    *)
(* enough for two refresh cycles that use up their retries.                *)
(***************************************************************************)
MaxOutage == 8

\* What the upstream answers before and during the outage.
OutageResponses ==
    {[status |-> "ok", content |-> FeedOne],
     [status |-> "ok", content |-> FeedAllBad],
     [status |-> "error", kind |-> "RequestError"],
     [status |-> "error", kind |-> "OtherError"]}

\* Time passes.
Tick_outage ==
    /\ now < MaxOutage
    /\ now' = now + 1
    /\ UNCHANGED <<args, returned, store, pc, op, current_time, attempt,
                   wake, result, response, fetch_calls>>

\* No call is in flight.
NoneInFlight == \A c \in Callers : pc[c] \notin Suspended

NextOutage ==
    \/ Tick_outage
    \/ \E c \in Callers : NoneInFlight /\ load_items_cached(c)
    \/ \E c \in Callers : \E r \in OutageResponses : async_wrapper_response(c, r)
    \/ \E c \in Callers : async_wrapper_wakes(c)
    \/ \E c \in Callers : Finish(c)

SpecOutage == Init /\ [][NextOutage]_vars

\* The load_items_cached call of caller c returns the stale snapshot in this
\* step.
FallsBack(c) ==
    /\ op[c] = "load" /\ pc[c] = "http" /\ pc'[c] = "done"
    /\ result'[c].outcome = "return" /\ result'[c].via = "stale"

\* A call of caller d has fallen back to the installed snapshot, which was
\* stale when that call began and has not been replaced since.
FellBack(d) ==
    /\ pc[d] = "done" /\ op[d] = "load"
    /\ result[d] = Returned(cached_items, "stale")
    /\ last_fetch # None
    /\ current_time[d] - last_fetch.val >= cache_ttl

(***************************************************************************)
(* C34.  No negative caching.  A load_items_cached call that falls back to *)
(* the stale snapshot leaves the list and the timestamp as they were; so   *)
(* every load_items_cached call made after it, while no fetch succeeds,    *)
(* enters fetch_raw again, from attempt 0, and when the upstream fails     *)
(* with an error that is retried the call returns the stale snapshot only  *)
(* after all attempts and both backoff waits.                              *)
(***************************************************************************)
NoNegativeCaching ==
    [][\A c \in Callers :
          /\ FallsBack(c)
             => /\ cached_items' = cached_items
                /\ last_fetch' = last_fetch
                /\ (/\ response'[c].status = "error"
                    /\ response'[c].kind \in RetryableKinds)
                   => /\ attempt[c] = max_attempts - 1
                      /\ fetch_calls[c] = 1
                      /\ now >= current_time[c] + wait_time(0) + wait_time(1)
          /\ (Calls(c, "load") /\ \E d \in Callers \ {c} : FellBack(d))
             => /\ pc'[c] = "http"
                /\ attempt'[c] = 0
                /\ fetch_calls'[c] = 1]_vars

\* Two calls, one after the other, have each used up their retries on the
\* failing upstream and have come back with the same stale snapshot, whose
\* timestamp is still the one of its installation.
NoNegativeCachingWitness ==
    \E c, d \in Callers :
        /\ c # d /\ FellBack(d) /\ FellBack(c)
        /\ response[d] = [status |-> "error", kind |-> "RequestError"]
        /\ response[c] = [status |-> "error", kind |-> "RequestError"]
        /\ current_time[c] >= current_time[d] + wait_time(0) + wait_time(1)
        /\ now >= current_time[c] + wait_time(0) + wait_time(1)

\* The snapshot that is installed is the one the load_items_cached call of
\* caller d installed: d holds it with its own stamp.
InstalledBy(d) ==
    /\ pc[d] = "done" /\ op[d] = "load"
    /\ result[d] = Returned(cached_items, "fetch")
    /\ last_fetch = Some(current_time[d])

(***************************************************************************)
(* C35.  Monotonic capture time under overlap.  When the refreshes of      *)
(* several callers overlap, the timestamp never decreases from one         *)
(* installed snapshot to the next; and a refresh that started earlier does *)
(* not overwrite the snapshot of a refresh that started later (stated for  *)
(* load_items_cached calls, whose start is their current_time).            *)
(***************************************************************************)
MonotonicCapture ==
    [][/\ (last_fetch # None /\ last_fetch' # None)
          => last_fetch'.val >= last_fetch.val
       /\ \A c, d \in Callers :
             (/\ c # d /\ op[c] = "load" /\ RefreshSucceeded(c)
              /\ InstalledBy(d))
             => current_time[c] >= current_time[d]]_vars

\* clear_cache has returned to caller d, and the load_items_cached call of
\* caller c was suspended in fetch_raw when it ran: c's call began before
\* the snapshot that clear_cache discarded was stamped, and is in flight.
ClearedInFlight(d, c) ==
    /\ pc[d] = "done" /\ op[d] = "clear"
    /\ result[d].discarded.at # None
    /\ op[c] = "load" /\ pc[c] \in Suspended
    /\ current_time[c] < result[d].discarded.at.val

(***************************************************************************)
(* C36.  clear_cache versus a refresh in flight.  After clear_cache has    *)
(* returned no snapshot is installed until a refresh that started after it *)
(* succeeds: a load_items_cached call that was suspended in fetch_raw when *)
(* clear_cache ran installs nothing when its fetch returns.                *)
(***************************************************************************)
ClearOutlastsInFlight ==
    [][\A c, d \in Callers :
          (c # d /\ ClearedInFlight(d, c) /\ cached_items = None)
          => (FetchEnded(c) => cached_items' = None /\ last_fetch' = None)]_vars

(***************************************************************************)
(* TTLCache on its own: a cache built with ttl_seconds and max_size, on    *)
(* which set, get and clear are called at any time and in any order.       *)
(* Every method holds the lock for all it does to the dict, so the calls   *)
(* of any number of threads take effect one after the other.  ttl_cache    *)
(* holds the dict; returned holds the last call with the dict it found.    *)
(***************************************************************************)
MaxSize == 2

CacheKeys == {<<"a">>, <<"b">>, <<"c">>}

\* TTLCache(ttl_seconds, max_size)
InitTtl ==
    /\ InitClient
    /\ args \in {Some([ttl_seconds |-> t, max_size |-> s]) :
                    t \in 1..cache_ttl, s \in 1..MaxSize}
    /\ returned = <<>>

\* A call of the cache touches nothing but the dict.
TtlFrame ==
    UNCHANGED <<args, now, cached_items, last_fetch, pc, op, current_time,
                attempt, wake, result, response, fetch_calls>>

\* The call the caller of the cache made last.
Called(method, k, v, value) ==
    <<[method |-> method, key |-> k, value |-> v, at |-> now,
       found |-> ttl_cache, returns |-> value]>>

call_set(k, v) ==
    /\ ttl_cache' = set_entries(ttl_cache, args.val.ttl_seconds,
                                args.val.max_size, k, v, now)
    /\ returned' = Called("set", k, v, None)
    /\ TtlFrame

call_get(k) ==
    /\ ttl_cache' = get_entries(ttl_cache, args.val.ttl_seconds, k, now)
    /\ returned' = Called("get", k, <<>>,
                          get_value(ttl_cache, args.val.ttl_seconds, k, now))
    /\ TtlFrame

call_clear ==
    /\ ttl_cache' = <<>>
    /\ returned' = Called("clear", <<>>, <<>>, None)
    /\ TtlFrame

NextTtl ==
    \/ Tick
    \/ \E k \in CacheKeys : \E v \in TtlValues : call_set(k, v)
    \/ \E k \in CacheKeys : call_get(k)
    \/ call_clear

SpecTtl == InitTtl /\ [][NextTtl]_vars

\* The entries of the dict m, as a set.
Entries(m) == {m[i] : i \in 1..Len(m)}

\* The keys of m whose entry has the least timestamp of all.
Oldest(m) ==
    {e.key : e \in {f \in Entries(m) :
                       \A g \in Entries(m) : f.timestamp <= g.timestamp}}

\* The dict m holds the entries of the dict found, less those of the keys in
\* gone, and the entries in added.
Leaves(m, found, gone, added) ==
    /\ Entries(m) = {e \in Entries(found) : e.key \notin gone} \cup added
    /\ Len(m) = Cardinality(Entries(m))

\* What the last call of set must have left, by the dict it found.
SetEvicts(call, ttl, size) ==
    LET new == [key |-> call.key, value |-> call.value, timestamp |-> call.at]
        expired == {e.key : e \in {f \in Entries(call.found) :
                                      call.at - f.timestamp >= ttl}}
    IN  IF Len(call.found) < size
        THEN Leaves(ttl_cache, call.found, {call.key}, {new})
        ELSE IF expired # {}
        THEN Leaves(ttl_cache, call.found, expired \cup {call.key}, {new})
        ELSE \E victim \in Oldest(call.found) :
                 Leaves(ttl_cache, call.found, {victim, call.key}, {new})

\* What the last call of get must have returned and left.
GetExpires(call, ttl) ==
    LET held == {e \in Entries(call.found) : e.key = call.key}
    IN  /\ \A e \in held :
              /\ call.at - e.timestamp >= ttl
                 => /\ call.returns = None
                    /\ Leaves(ttl_cache, call.found, {call.key}, {})
              /\ call.at - e.timestamp < ttl
                 => /\ call.returns = Some(e.value)
                    /\ ttl_cache = call.found
        /\ held = {} => call.returns = None /\ ttl_cache = call.found

(***************************************************************************)
(* C37.  TTLCache capacity and expiry.  For max_size >= 1, after any       *)
(* sequence of set, get and clear calls the dict holds at most max_size    *)
(* entries; a set that finds the dict at capacity removes the expired      *)
(* entries, and when there is none the entry of the oldest timestamp, and  *)
(* nothing else; a get never returns a value of age >= ttl, and removes    *)
(* the entry of such a value.                                              *)
(***************************************************************************)
TTLCacheBounded ==
    /\ Len(ttl_cache) <= args.val.max_size
    /\ returned # <<>> =>
          LET call == returned[1]
          IN  /\ call.method = "set"
                 => SetEvicts(call, args.val.ttl_seconds, args.val.max_size)
              /\ call.method = "get"
                 => GetExpires(call, args.val.ttl_seconds)
              /\ call.method = "clear" => ttl_cache = <<>>

\* A set of a new key has found a cache of max_size 2 full of two live
\* entries of different age, and has removed the older one.
TTLCacheBoundedWitness ==
    /\ args.val.max_size = 2
    /\ returned # <<>>
    /\ returned[1].method = "set"
    /\ Len(returned[1].found) = 2
    /\ returned[1].key \notin ttl_keys(returned[1].found)
    /\ \A e \in Entries(returned[1].found) :
          returned[1].at - e.timestamp < args.val.ttl_seconds
    /\ returned[1].found[1].timestamp < returned[1].found[2].timestamp
    /\ ttl_keys(ttl_cache) =
          {returned[1].found[2].key, returned[1].key}

=========================================================================
